---- MODULE Spec2Model ----
(***************************************************************************)
(* Physics integration and AABB collision detection/resolution of the      *)
(* platformer (game/physics.py, game/collision.py, game/player.py).        *)
(*                                                                         *)
(* Numbers.  The program computes with Python floats.  A float r is        *)
(* modelled as the integer r*Q (fixed point, quantum 1/Q), every product   *)
(* and quotient rounded to the nearest quantum, together with the three    *)
(* IEEE specials +inf, -inf and NaN that an infinite mass produces.        *)
(* pygame.Rect stores integers obtained by truncation toward zero; its     *)
(* fields are plain integers (pixels), not fixed point.                    *)
(***************************************************************************)
EXTENDS Integers, Sequences, FiniteSets, TLC

----------------------------------------------------------------------------
(* Floats *)

Q == 1000

PINF == 2000000000
NINF == 0 - PINF
NAN == PINF + 1

F(n) == n * Q

IsFin(a) == a # PINF /\ a # NINF /\ a # NAN

Abs(a) == IF a < 0 THEN 0 - a ELSE a

Sgn(a) == IF a = NAN THEN 0 ELSE IF a > 0 THEN 1 ELSE IF a < 0 THEN 0 - 1 ELSE 0

Min(a, b) == IF a < b THEN a ELSE b

Max(a, b) == IF a > b THEN a ELSE b

\* nearest integer to a/b for a >= 0, b > 0
RDivNat(a, b) == (a \div b) + (IF 2 * (a % b) >= b THEN 1 ELSE 0)

\* nearest quantum to a*b/Q for a, b >= 0 (the smaller factor is split so
\* that no intermediate product leaves the machine integers)
MulNat(a, b) ==
    LET s == Min(a, b)
        l == Max(a, b)
    IN  l * (s \div Q) + (l \div Q) * (s % Q) + RDivNat((l % Q) * (s % Q), Q)

\* nearest quantum to a*Q/b for a >= 0, b > 0
DivNat(a, b) == (a \div b) * Q + RDivNat((a % b) * Q, b)

\* float negation
FNeg(a) == IF a = NAN THEN NAN ELSE IF a = PINF THEN NINF ELSE IF a = NINF THEN PINF ELSE 0 - a

\* float addition
FAdd(a, b) ==
    IF a = NAN \/ b = NAN THEN NAN
    ELSE IF ~IsFin(a) /\ ~IsFin(b) THEN (IF a = b THEN a ELSE NAN)
    ELSE IF ~IsFin(a) THEN a
    ELSE IF ~IsFin(b) THEN b
    ELSE a + b

FSub(a, b) == FAdd(a, FNeg(b))

\* float multiplication
FMul(a, b) ==
    IF a = NAN \/ b = NAN THEN NAN
    ELSE IF ~IsFin(a) \/ ~IsFin(b)
         THEN (IF a = 0 \/ b = 0 THEN NAN
               ELSE IF Sgn(a) * Sgn(b) > 0 THEN PINF ELSE NINF)
    ELSE Sgn(a) * Sgn(b) * MulNat(Abs(a), Abs(b))

\* float division by a non-zero divisor
FDiv(a, b) ==
    IF a = NAN \/ b = NAN THEN NAN
    ELSE IF ~IsFin(a) /\ ~IsFin(b) THEN NAN
    ELSE IF ~IsFin(b) THEN 0
    ELSE IF ~IsFin(a) THEN (IF Sgn(a) * Sgn(b) > 0 THEN PINF ELSE NINF)
    ELSE Sgn(a) * Sgn(b) * DivNat(Abs(a), Abs(b))

\* float comparisons: every comparison with NaN is false
FLt(a, b) == a # NAN /\ b # NAN /\ a < b

FGt(a, b) == FLt(b, a)

\* int(x): truncation toward zero of a finite float, in pixels
Trunc(a) == Sgn(a) * (Abs(a) \div Q)

\* floor(sqrt(n)) for a natural n
RECURSIVE SqrtBetween(_, _, _)
SqrtBetween(n, lo, hi) ==
    IF lo >= hi THEN lo
    ELSE LET mid == (lo + hi + 1) \div 2
         IN  IF mid * mid <= n THEN SqrtBetween(n, mid, hi)
             ELSE SqrtBetween(n, lo, mid - 1)

ISqrt(n) == SqrtBetween(n, 0, Min(n, 46340))

----------------------------------------------------------------------------
(* Vector2D *)

Vec(x, y) == [x |-> x, y |-> y]

VZero == Vec(0, 0)

VAdd(a, b) == Vec(FAdd(a.x, b.x), FAdd(a.y, b.y))

VSub(a, b) == Vec(FSub(a.x, b.x), FSub(a.y, b.y))

VMul(a, s) == Vec(FMul(a.x, s), FMul(a.y, s))

\* line 41: the componentwise quotient by a non-zero scalar
VDiv(a, s) == Vec(FDiv(a.x, s), FDiv(a.y, s))

\* what a call yields when it raises ValueError instead of returning
ValueError == [raised |-> "ValueError"]

\* a zero divisor answered with the zero vector
truediv_silent(a, scalar) == IF scalar = 0 THEN VZero ELSE VDiv(a, scalar)

\* Vector2D.__truediv__
truediv(a, scalar) == IF scalar = 0 THEN ValueError ELSE VDiv(a, scalar)

VFin(a) == IsFin(a.x) /\ IsFin(a.y)

\* sqrt(x*x + y*y); exact floor for axis-aligned and for small vectors, and
\* computed on the coordinates scaled down by MagShift for large ones
MagShift == 64

magnitude(a) ==
    IF ~VFin(a) THEN NAN
    ELSE IF a.y = 0 THEN Abs(a.x)
    ELSE IF a.x = 0 THEN Abs(a.y)
    ELSE IF Abs(a.x) <= 30000 /\ Abs(a.y) <= 30000
         THEN ISqrt(a.x * a.x + a.y * a.y)
    ELSE MagShift * ISqrt((Abs(a.x) \div MagShift) * (Abs(a.x) \div MagShift)
                          + (Abs(a.y) \div MagShift) * (Abs(a.y) \div MagShift))

normalize(a) ==
    LET mag == magnitude(a)
    IN  IF mag = 0 THEN VZero ELSE Vec(FDiv(a.x, mag), FDiv(a.y, mag))

dot(a, b) == FAdd(FMul(a.x, b.x), FMul(a.y, b.y))

to_int_tuple(a) == Vec(Trunc(a.x), Trunc(a.y))

----------------------------------------------------------------------------
(* pygame.Rect: integer left, top, width, height (width, height > 0 here) *)

Rect(x, y, w, h) == [left |-> Trunc(x), top |-> Trunc(y), w |-> Trunc(w), h |-> Trunc(h)]

RRight(r) == r.left + r.w

RBottom(r) == r.top + r.h

RCenterX(r) == r.left + (r.w \div 2)

RCenterY(r) == r.top + (r.h \div 2)

colliderect(a, b) ==
    /\ a.w # 0 /\ a.h # 0 /\ b.w # 0 /\ b.h # 0
    /\ a.left < RRight(b) /\ RRight(a) > b.left
    /\ a.top < RBottom(b) /\ RBottom(a) > b.top

collidepoint(r, p) ==
    /\ p.x >= r.left /\ p.x < RRight(r)
    /\ p.y >= r.top /\ p.y < RBottom(r)

----------------------------------------------------------------------------
(* CollisionLayer *)

PLAYER == 1
PLATFORM == 2
ENEMY == 4
PICKUP == 8
TRIGGER == 16

\* the matrix with Enemy missing from Platform's row
collision_matrix_one_way(layer) ==
    IF layer = PLAYER THEN {PLATFORM, ENEMY, PICKUP, TRIGGER}
    ELSE IF layer = PLATFORM THEN {PLAYER}
    ELSE IF layer = ENEMY THEN {PLAYER, PLATFORM}
    ELSE IF layer = PICKUP THEN {PLAYER}
    ELSE IF layer = TRIGGER THEN {PLAYER}
    ELSE {}

collision_matrix(layer) ==
    IF layer = PLAYER THEN {PLATFORM, ENEMY, PICKUP, TRIGGER}
    ELSE IF layer = PLATFORM THEN {PLAYER, ENEMY}
    ELSE IF layer = ENEMY THEN {PLAYER, PLATFORM}
    ELSE IF layer = PICKUP THEN {PLAYER}
    ELSE IF layer = TRIGGER THEN {PLAYER}
    ELSE {}

can_collide(layer1, layer2) == layer2 \in collision_matrix(layer1)

----------------------------------------------------------------------------
(* PhysicsBody.  A collider record c carries its body's fields (pos, vel,  *)
(* acc, mass, friction, restitution, drag, gs) beside its own (size,       *)
(* layer, trigger, enabled, touching, ident, owner).                       *)

get_bounds(c) ==
    Rect(FSub(c.pos.x, FDiv(c.size.x, F(2))), FSub(c.pos.y, FDiv(c.size.y, F(2))),
         c.size.x, c.size.y)

\* PhysicsBody.apply_force when the division does not raise
apply_force(c, force) == [c EXCEPT !.acc = VAdd(c.acc, truediv(force, c.mass))]

\* PhysicsBody.apply_impulse when the division does not raise
apply_impulse(c, impulse) == [c EXCEPT !.vel = VAdd(c.vel, truediv(impulse, c.mass))]

\* a * delta_time, the time step being the rational dt.n / dt.d seconds
TimesDt(a, dt) ==
    IF ~IsFin(a) THEN a ELSE Sgn(a) * RDivNat(Abs(a) * dt.n, dt.d)

\* a * (0.5 * delta_time * delta_time)
TimesHalfDtSq(a, dt) ==
    IF ~IsFin(a) THEN a ELSE Sgn(a) * RDivNat(Abs(a) * dt.n * dt.n, 2 * dt.d * dt.d)

\* the step with the acceleration carried over
Step_keeps_acc(b, dt) ==
    [b EXCEPT
        !.pos = VAdd(VAdd(b.pos, Vec(TimesDt(b.vel.x, dt), TimesDt(b.vel.y, dt))),
                     Vec(TimesHalfDtSq(b.acc.x, dt), TimesHalfDtSq(b.acc.y, dt))),
        !.vel = VAdd(b.vel, Vec(TimesDt(b.acc.x, dt), TimesDt(b.acc.y, dt)))]

\* lines 189-199: position, velocity and acceleration after the step
Step(b, dt) ==
    [b EXCEPT
        !.pos = VAdd(VAdd(b.pos, Vec(TimesDt(b.vel.x, dt), TimesDt(b.vel.y, dt))),
                     Vec(TimesHalfDtSq(b.acc.x, dt), TimesHalfDtSq(b.acc.y, dt))),
        !.vel = VAdd(b.vel, Vec(TimesDt(b.acc.x, dt), TimesDt(b.acc.y, dt))),
        !.acc = VZero]

\* lines 185-187: the drag force folded into the acceleration
ApplyDrag(b) ==
    apply_force(b, VMul(b.vel, FMul(FNeg(b.drag), magnitude(b.vel))))

\* gravity folded in at full strength, gravity_scale ignored
ApplyOwnGravity_unscaled(c, gravity) == apply_force(c, VMul(gravity, c.mass))

\* lines 180-183: the gravity force folded into the acceleration
ApplyOwnGravity(c, gravity) ==
    IF FGt(c.gs, 0) THEN apply_force(c, VMul(VMul(gravity, c.gs), c.mass)) ELSE c

\* PhysicsBody.integrate(delta_time, gravity) with a gravity vector supplied
integrate(c, dt, gravity) == Step(ApplyDrag(ApplyOwnGravity(c, gravity)), dt)

----------------------------------------------------------------------------
(* PhysicsUtils *)

None == [none |-> TRUE]

CollisionData(normal, depth, side, point) ==
    [normal |-> IF FGt(magnitude(normal), 0) THEN normalize(normal) ELSE normal,
     depth |-> depth, side |-> side, point |-> point]

\* the narrow phase with a tie between the overlaps resolved horizontally
aabb_collision_data_tie_horizontal(rect1, rect2) ==
    IF ~colliderect(rect1, rect2) THEN None
    ELSE
    LET overlap_x == Min(RRight(rect1), RRight(rect2)) - Max(rect1.left, rect2.left)
        overlap_y == Min(RBottom(rect1), RBottom(rect2)) - Max(rect1.top, rect2.top)
    IN  IF overlap_x <= overlap_y
        THEN IF RCenterX(rect1) < RCenterX(rect2)
             THEN CollisionData(Vec(F(0 - 1), 0), F(overlap_x), "right",
                                Vec(F(RRight(rect1)), F(RCenterY(rect1))))
             ELSE CollisionData(Vec(F(1), 0), F(overlap_x), "left",
                                Vec(F(rect1.left), F(RCenterY(rect1))))
        ELSE IF RCenterY(rect1) < RCenterY(rect2)
             THEN CollisionData(Vec(0, F(0 - 1)), F(overlap_y), "bottom",
                                Vec(F(RCenterX(rect1)), F(RBottom(rect1))))
             ELSE CollisionData(Vec(0, F(1)), F(overlap_y), "top",
                                Vec(F(RCenterX(rect1)), F(rect1.top)))

\* PhysicsUtils.aabb_collision_data on the two bounds
aabb_collision_data(rect1, rect2) ==
    IF ~colliderect(rect1, rect2) THEN None
    ELSE
    LET overlap_x == Min(RRight(rect1), RRight(rect2)) - Max(rect1.left, rect2.left)
        overlap_y == Min(RBottom(rect1), RBottom(rect2)) - Max(rect1.top, rect2.top)
    IN  IF overlap_x < overlap_y
        THEN IF RCenterX(rect1) < RCenterX(rect2)
             THEN CollisionData(Vec(F(0 - 1), 0), F(overlap_x), "right",
                                Vec(F(RRight(rect1)), F(RCenterY(rect1))))
             ELSE CollisionData(Vec(F(1), 0), F(overlap_x), "left",
                                Vec(F(rect1.left), F(RCenterY(rect1))))
        ELSE IF RCenterY(rect1) < RCenterY(rect2)
             THEN CollisionData(Vec(0, F(0 - 1)), F(overlap_y), "bottom",
                                Vec(F(RCenterX(rect1)), F(RBottom(rect1))))
             ELSE CollisionData(Vec(0, F(1)), F(overlap_y), "top",
                                Vec(F(RCenterX(rect1)), F(rect1.top)))

\* velocity_along_normal of the pair
VelocityAlongNormal(body1, body2, collision) ==
    dot(VSub(body1.vel, body2.vel), collision.normal)

\* each body given its own mass fraction instead of the other's
SeparateBy_own_mass(body1, body2, separation) ==
    IF body1.mass = PINF
    THEN <<body1, [body2 EXCEPT !.pos = VSub(body2.pos, separation)]>>
    ELSE IF body2.mass = PINF
    THEN <<[body1 EXCEPT !.pos = VAdd(body1.pos, separation)], body2>>
    ELSE <<[body1 EXCEPT !.pos =
                VAdd(body1.pos,
                     VMul(separation, FDiv(body1.mass, FAdd(body1.mass, body2.mass))))],
           [body2 EXCEPT !.pos =
                VAdd(body2.pos,
                     VMul(separation, FDiv(FNeg(body2.mass), FAdd(body1.mass, body2.mass))))]>>

\* the separation handed to the wrong body of a static/dynamic pair
SeparateBy_static_moves(body1, body2, separation) ==
    IF body1.mass = PINF
    THEN <<[body1 EXCEPT !.pos = VAdd(body1.pos, separation)], body2>>
    ELSE <<body1, [body2 EXCEPT !.pos = VSub(body2.pos, separation)]>>

\* lines 329-342 for the given separation vector
SeparateBy(body1, body2, separation) ==
    IF body1.mass = PINF
    THEN <<body1, [body2 EXCEPT !.pos = VSub(body2.pos, separation)]>>
    ELSE IF body2.mass = PINF
    THEN <<[body1 EXCEPT !.pos = VAdd(body1.pos, separation)], body2>>
    ELSE <<[body1 EXCEPT !.pos =
                VAdd(body1.pos,
                     VMul(separation, FDiv(body2.mass, FAdd(body1.mass, body2.mass))))],
           [body2 EXCEPT !.pos =
                VAdd(body2.pos,
                     VMul(separation, FDiv(FNeg(body1.mass), FAdd(body1.mass, body2.mass))))]>>

\* the positional part of PhysicsUtils.resolve_collision (lines 326-342)
Separate(body1, body2, collision) ==
    SeparateBy(body1, body2, VMul(collision.normal, collision.depth))

\* the impulse scalar computed with the larger of the two restitutions
ImpulseScalar_max(body1, body2, velocity_along_normal) ==
    IF body1.mass # PINF /\ body2.mass # PINF
    THEN FDiv(FMul(FNeg(FAdd(F(1), Max(body1.restitution, body2.restitution))),
                   velocity_along_normal),
              FAdd(FDiv(F(1), body1.mass), FDiv(F(1), body2.mass)))
    ELSE FMul(FNeg(FAdd(F(1), Max(body1.restitution, body2.restitution))),
              velocity_along_normal)

\* the impulse scalar for the measured velocity along the normal (lines 353-368)
ImpulseScalar(body1, body2, velocity_along_normal) ==
    IF body1.mass # PINF /\ body2.mass # PINF
    THEN FDiv(FMul(FNeg(FAdd(F(1), Min(body1.restitution, body2.restitution))),
                   velocity_along_normal),
              FAdd(FDiv(F(1), body1.mass), FDiv(F(1), body2.mass)))
    ELSE FMul(FNeg(FAdd(F(1), Min(body1.restitution, body2.restitution))),
              velocity_along_normal)

\* the normal impulse (lines 358-371)
NormalImpulse(body1, body2, impulse) ==
    IF body1.mass = PINF /\ body2.mass # PINF
    THEN <<body1, [body2 EXCEPT !.vel = VSub(body2.vel, impulse)]>>
    ELSE IF body2.mass = PINF /\ body1.mass # PINF
    THEN <<[body1 EXCEPT !.vel = VAdd(body1.vel, impulse)], body2>>
    ELSE IF body1.mass # PINF /\ body2.mass # PINF
    THEN <<[body1 EXCEPT !.vel = VAdd(body1.vel, truediv(impulse, body1.mass))],
           [body2 EXCEPT !.vel = VSub(body2.vel, truediv(impulse, body2.mass))]>>
    ELSE <<body1, body2>>

\* lines 381-384 for the given friction impulse
FrictionBy(body1, body2, friction_impulse) ==
    <<IF body1.mass # PINF
      THEN [body1 EXCEPT !.vel = VSub(body1.vel, truediv(friction_impulse, body1.mass))]
      ELSE body1,
      IF body2.mass # PINF
      THEN [body2 EXCEPT !.vel = VAdd(body2.vel, truediv(friction_impulse, body2.mass))]
      ELSE body2>>

\* lines 376-384 for the given tangential velocity and impulse scalar
FrictionAlong(pair, raw, impulse_scalar) ==
    IF (pair[1].mass # PINF \/ pair[2].mass # PINF) /\ FGt(magnitude(raw), Q \div 100)
    THEN FrictionBy(pair[1], pair[2],
                    VMul(VMul(VMul(normalize(raw), impulse_scalar),
                              Min(pair[1].friction, pair[2].friction)),
                         Q \div 10))
    ELSE pair

\* lines 352-384 for the measured relative velocity and its normal component
Respond(moved, relative_velocity, velocity_along_normal, collision) ==
    FrictionAlong(
        NormalImpulse(moved[1], moved[2],
                      VMul(collision.normal,
                           ImpulseScalar(moved[1], moved[2], velocity_along_normal))),
        VSub(relative_velocity, VMul(collision.normal, velocity_along_normal)),
        ImpulseScalar(moved[1], moved[2], velocity_along_normal))

\* the response without the separating-velocity test
RespondUnlessSeparating_always(moved, relative_velocity, velocity_along_normal, collision) ==
    Respond(moved, relative_velocity, velocity_along_normal, collision)

\* lines 344-350
RespondUnlessSeparating(moved, relative_velocity, velocity_along_normal, collision) ==
    IF FGt(velocity_along_normal, 0) THEN moved
    ELSE Respond(moved, relative_velocity, velocity_along_normal, collision)

\* PhysicsUtils.resolve_collision: the pair of bodies after resolution
PhysicsUtils_resolve_collision(body1, body2, collision) ==
    IF body1.mass = PINF /\ body2.mass = PINF THEN <<body1, body2>>
    ELSE RespondUnlessSeparating(Separate(body1, body2, collision),
                                 VSub(body1.vel, body2.vel),
                                 VelocityAlongNormal(body1, body2, collision),
                                 collision)

----------------------------------------------------------------------------
(* Player collision callbacks (game/player.py) *)

\* Player._on_collision_enter
Player_on_collision_enter(c, other, collision) ==
    IF other.layer = PLATFORM /\ collision.side = "top"
    THEN [c EXCEPT
            !.grounded = TRUE,
            !.jump_count = 0,
            !.pstate = IF c.pstate \in {"falling", "jumping"} THEN "idle" ELSE c.pstate,
            !.vel = IF c.pstate \in {"falling", "jumping"} /\ FGt(c.vel.y, 0)
                    THEN Vec(c.vel.x, 0) ELSE c.vel]
    ELSE c

\* Player._on_collision_stay
Player_on_collision_stay(c, other, collision) ==
    IF other.layer = PLATFORM /\ collision.side = "top"
    THEN [c EXCEPT
            !.grounded = TRUE,
            !.jump_count = IF c.jump_count > 0 /\ FLt(Abs(c.vel.y), F(10))
                           THEN 0 ELSE c.jump_count]
    ELSE c

\* PlayerStats defaults
jump_force == F(650)

max_jump_count == 1

\* a jump that is never refused
jump_unlimited(c) ==
    [c EXCEPT !.vel = Vec(c.vel.x, FNeg(jump_force)),
              !.jump_count = c.jump_count + 1,
              !.grounded = FALSE,
              !.pstate = "jumping"]

\* Player.jump: the player's fields after the call
jump(c) ==
    IF c.jump_count < max_jump_count
    THEN [c EXCEPT !.vel = Vec(c.vel.x, FNeg(jump_force)),
                   !.jump_count = c.jump_count + 1,
                   !.grounded = FALSE,
                   !.pstate = "jumping"]
    ELSE c

\* Player.reset_position(position)
reset_position(c, position) ==
    [c EXCEPT !.pos = position, !.vel = VZero, !.acc = VZero,
              !.grounded = FALSE, !.jump_count = 0, !.pstate = "falling"]

----------------------------------------------------------------------------
(* CollisionSystem *)

VARIABLES
    colliders,     \* self.colliders, in registration order
    spatial_grid,  \* self.spatial_grid as a set of <<cell, index>>
    crashed,       \* an update raised out of pygame.Rect (non-finite position)
    tick,          \* operations that changed the world so far
    narrow,        \* the calls of aabb_collision_data, as ordered pairs, made
                   \* by the last operation
    events,        \* callbacks dispatched by the last update, in order
    moves,         \* positional corrections applied by the last resolution
    checks,        \* results of the check_collision calls made since the last
                   \* change of the world, by ordered pair
    query,         \* the last operation and, for a query, its arguments and result
    history,       \* the callbacks dispatched by each update so far, oldest first
    combat         \* the player's weapon, attack flags and the wolf of PlayingState

vars == <<colliders, spatial_grid, crashed, tick, narrow, events, moves, checks, query,
          history, combat>>

gravity == Vec(0, F(980))

grid_size == 100

Indices(cs) == 1..Len(cs)

\* the grid cells a collider's bounds overlap (lines 118-128, 135-146)
GridCells(c) ==
    LET bounds == get_bounds(c)
    IN  {<<x, y>> : x \in (bounds.left \div grid_size)..(RRight(bounds) \div grid_size),
                    y \in (bounds.top \div grid_size)..(RBottom(bounds) \div grid_size)}

update_spatial_grid(cs) ==
    UNION {{<<key, i>> : key \in GridCells(cs[i])} : i \in {k \in Indices(cs) : cs[k].enabled}}

get_potential_collisions(cs, grid, i) ==
    {j \in Indices(cs) :
        /\ j # i
        /\ cs[j].enabled
        /\ \E key \in GridCells(cs[i]) : <<key, j>> \in grid}

\* lines 304-310: the CollisionData names body2 as its other_body, a body
\* being known by the identity of its collider
WithOtherBody(data, body2) ==
    IF data = None THEN None
    ELSE [normal |-> data.normal, depth |-> data.depth, side |-> data.side,
          point |-> data.point, other_body |-> body2.ident]

\* check_collision without the layer test of lines 168-169
CheckTrace_no_gate(cs, i, j) ==
    IF ~(cs[i].enabled /\ cs[j].enabled) THEN [result |-> None, narrow |-> FALSE]
    ELSE [result |-> WithOtherBody(aabb_collision_data(get_bounds(cs[i]), get_bounds(cs[j])),
                                   cs[j]),
          narrow |-> TRUE]

\* check_collision(collider1, collider2): its result (None or the
\* CollisionData) and whether it invoked PhysicsUtils.aabb_collision_data
CheckTrace(cs, i, j) ==
    IF ~(cs[i].enabled /\ cs[j].enabled) THEN [result |-> None, narrow |-> FALSE]
    ELSE IF ~can_collide(cs[i].layer, cs[j].layer) THEN [result |-> None, narrow |-> FALSE]
    ELSE [result |-> WithOtherBody(aabb_collision_data(get_bounds(cs[i]), get_bounds(cs[j])),
                                   cs[j]),
          narrow |-> TRUE]

check_collision(cs, i, j) == CheckTrace(cs, i, j).result

InvokesNarrowPhase(cs, i, j) == CheckTrace(cs, i, j).narrow

max_penetration == F(50)

\* no clamp
ClampDepth_none(collision) == collision

\* the clamp of lines 190-193, which rewrites the CollisionData in place
ClampDepth(collision) ==
    IF FGt(collision.depth, max_penetration)
    THEN [collision EXCEPT !.depth = max_penetration]
    ELSE collision

\* the colliders with the resolved pair of bodies put back
PutPair(cs, i, j, after) == [cs EXCEPT ![i] = after[1], ![j] = after[2]]

\* lines 189-196 for the clamped CollisionData
ResolveClamped(cs, i, j, clamped) ==
    [cs |-> PutPair(cs, i, j, PhysicsUtils_resolve_collision(cs[i], cs[j], clamped)),
     collision |-> clamped]

\* resolution that treats a trigger like any other collider
resolve_collision_solid(cs, i, j, collision) ==
    ResolveClamped(cs, i, j, ClampDepth(collision))

\* CollisionSystem.resolve_collision: the colliders and the CollisionData after
resolve_collision(cs, i, j, collision) ==
    IF cs[i].trigger \/ cs[j].trigger THEN [cs |-> cs, collision |-> collision]
    ELSE ResolveClamped(cs, i, j, ClampDepth(collision))

\* does the callback registered on collider c raise: a collider owned by
\* "faulty" has callbacks that always raise, one owned by "faulty_enter" has
\* an enter callback that raises
Raises(c, isNew) == c.owner = "faulty" \/ (c.owner = "faulty_enter" /\ isNew)

\* the callback of collider c for a contact that is new (enter) or not (stay)
Callback(c, other, collision, isNew) ==
    IF c.owner # "player" THEN c
    ELSE IF isNew THEN Player_on_collision_enter(c, other, collision)
    ELSE Player_on_collision_stay(c, other, collision)

\* the callback alone, the other identity not recorded
Notify_forgetful(c, other, collision, isNew) == Callback(c, other, collision, isNew)

\* lines 246-256 for collider c
Notify(c, other, collision, isNew) ==
    Callback([c EXCEPT !.touching = c.touching \cup {other.ident}], other, collision, isNew)

\* _handle_collision_events(collider, other_collider, collision), not reached
\* once a callback has raised; w.raised tells whether one has
handle_collision_events(w, i, j, collision) ==
    IF w.raised THEN w
    ELSE [cs |-> [w.cs EXCEPT ![i] = Notify(w.cs[i], w.cs[j], collision,
                                            w.cs[j].ident \notin w.cs[i].touching)],
          events |-> Append(w.events,
                            [to |-> i, other |-> j,
                             kind |-> IF w.cs[j].ident \notin w.cs[i].touching
                                      THEN "enter" ELSE "stay",
                             side |-> collision.side, normal |-> collision.normal,
                             depth |-> collision.depth,
                             other_body |-> collision.other_body,
                             raised |-> Raises(w.cs[i], w.cs[j].ident \notin w.cs[i].touching)]),
          moves |-> w.moves,
          raised |-> Raises(w.cs[i], w.cs[j].ident \notin w.cs[i].touching)]

\* a set of collider indices as a sequence, in increasing identity
RECURSIVE ByIdent(_, _)
ByIdent(cs, S) ==
    IF S = {} THEN << >>
    ELSE LET m == CHOOSE j \in S : \A k \in S : cs[j].ident <= cs[k].ident
         IN  <<m>> \o ByIdent(cs, S \ {m})

\* a candidate pair passed in both of its orders
PassesIdentityTest_any(cs, i, j) == TRUE

\* lines 229-230: id(collider) >= id(other_collider) is skipped
PassesIdentityTest(cs, i, j) == cs[i].ident < cs[j].ident

\* the ordered pairs (collider, other_collider) that pass the identity test
\* of line 229, in the order the loops of lines 221-234 visit them
\* the order in which line 152 lists a set of colliders is the set's
\* iteration order, which the program does not control: increasing identity
\* or, when rev, decreasing (every order of a set of at most two)
SetOrder(cs, S, rev) ==
    IF rev THEN [k \in 1..Len(ByIdent(cs, S)) |-> ByIdent(cs, S)[Len(ByIdent(cs, S)) + 1 - k]]
    ELSE ByIdent(cs, S)

RECURSIVE Candidates(_, _, _, _)
Candidates(cs, grid, i, rev) ==
    IF i > Len(cs) THEN << >>
    ELSE LET others == IF cs[i].enabled
                       THEN SetOrder(cs, get_potential_collisions(cs, grid, i), rev)
                       ELSE << >>
             mine == SelectSeq(others, LAMBDA j : PassesIdentityTest(cs, i, j))
         IN  [k \in 1..Len(mine) |-> <<i, mine[k]>>] \o Candidates(cs, grid, i + 1, rev)

\* the detected pairs among the candidates, each with its CollisionData
Detected(cs, cand) ==
    [k \in 1..Len(cand) |->
        [a |-> cand[k][1], b |-> cand[k][2],
         collision |-> check_collision(cs, cand[k][1], cand[k][2])]]

\* collision_pairs (lines 219-234)
CollisionPairs(cs, grid, rev) ==
    SelectSeq(Detected(cs, Candidates(cs, grid, 1, rev)), LAMBDA p : p.collision # None)

NarrowOf(cs, cand) ==
    SelectSeq(cand, LAMBDA p : InvokesNarrowPhase(cs, p[1], p[2]))

NarrowCalls(cs, grid, rev) == NarrowOf(cs, Candidates(cs, grid, 1, rev))

\* what one resolution did to a pair, for the record
Move(cs, pair, r) ==
    [a |-> pair.a, b |-> pair.b,
     detected |-> pair.collision.depth,
     normal |-> pair.collision.normal,
     trigger |-> cs[pair.a].trigger \/ cs[pair.b].trigger,
     separating |-> FGt(VelocityAlongNormal(cs[pair.a], cs[pair.b], pair.collision), 0),
     before1 |-> cs[pair.a], before2 |-> cs[pair.b],
     after1 |-> r.cs[pair.a], after2 |-> r.cs[pair.b]]

\* lines 241-242 after the resolution r of line 238
Dispatch(w, pair, r) ==
    handle_collision_events(
        handle_collision_events(
            [cs |-> r.cs, events |-> w.events, moves |-> Append(w.moves, Move(w.cs, pair, r)),
             raised |-> FALSE],
            pair.a, pair.b, r.collision),
        pair.b, pair.a, r.collision)

\* a loop that goes on with the next pair after a callback has raised
ResolvePair_isolating(w, pair) ==
    Dispatch(w, pair, resolve_collision(w.cs, pair.a, pair.b, pair.collision))

\* a loop that tests the pair again when its turn comes and resolves what
\* it then finds
ResolvePair_fresh(w, pair) ==
    IF w.raised \/ check_collision(w.cs, pair.a, pair.b) = None THEN w
    ELSE Dispatch(w, pair, resolve_collision(w.cs, pair.a, pair.b,
                                             check_collision(w.cs, pair.a, pair.b)))

\* one turn of the loop of lines 237-242; the loop is left when a callback raises
ResolvePair(w, pair) ==
    IF w.raised THEN w
    ELSE Dispatch(w, pair, resolve_collision(w.cs, pair.a, pair.b, pair.collision))

RECURSIVE ResolveAll(_, _, _)
ResolveAll(w, pairs, k) ==
    IF k > Len(pairs) THEN w ELSE ResolveAll(ResolvePair(w, pairs[k]), pairs, k + 1)

\* lines 209-211
ApplyGravity(cs) ==
    [i \in Indices(cs) |->
        IF cs[i].enabled /\ FGt(cs[i].gs, 0)
        THEN apply_force(cs[i], VMul(VMul(gravity, cs[i].mass), cs[i].gs))
        ELSE cs[i]]

\* an integration loop that does not look at enabled
IntegrateAll_everyone(cs, dt) ==
    [i \in Indices(cs) |-> integrate(cs[i], dt, gravity)]

\* lines 214-216
IntegrateAll(cs, dt) ==
    [i \in Indices(cs) |-> IF cs[i].enabled THEN integrate(cs[i], dt, gravity) ELSE cs[i]]

\* pygame.Rect cannot be built from a non-finite coordinate
BoundsFail(cs) == \E i \in Indices(cs) : cs[i].enabled /\ ~VFin(cs[i].pos)

\* an end of update that drops from each touching set the identities the
\* tick did not report
Finish_with_exit(done) ==
    /\ colliders' = [i \in Indices(done.cs) |->
            [done.cs[i] EXCEPT !.touching =
                {done.cs[done.events[k].other].ident :
                    k \in {n \in 1..Len(done.events) : done.events[n].to = i}}]]
    /\ crashed' = FALSE
    /\ events' = done.events
    /\ moves' = done.moves
    /\ history' = Append(history, done.events)
    /\ UNCHANGED combat

\* the end of update: what the resolution loop left
Finish(done) ==
    /\ colliders' = done.cs
    /\ crashed' = FALSE
    /\ events' = done.events
    /\ history' = Append(history, done.events)
    /\ UNCHANGED combat
    /\ moves' = done.moves

\* lines 218-242 on the integrated colliders, with the grid of line 206
DetectAndResolve(grid, moved, rev) ==
    /\ spatial_grid' = grid
    /\ IF BoundsFail(moved)
       THEN /\ colliders' = moved
            /\ crashed' = TRUE
            /\ narrow' = << >>
            /\ events' = << >>
            /\ history' = Append(history, << >>)
            /\ UNCHANGED combat
            /\ moves' = << >>
       ELSE /\ narrow' = NarrowCalls(moved, grid, rev)
            /\ Finish(ResolveAll([cs |-> moved, events |-> << >>, moves |-> << >>,
                                  raised |-> FALSE],
                                 CollisionPairs(moved, grid, rev), 1))

\* CollisionSystem.update(delta_time).  A get_bounds on a non-finite position
\* raises out of pygame.Rect and update ends there: at line 118 before
\* anything has moved, or at line 135 after the integration.
update(dt) ==
    /\ ~crashed
    /\ tick' = tick + 1
    /\ checks' = [p \in DOMAIN checks |-> [unset |-> TRUE]]
    /\ query' = [op |-> "update"]
    /\ IF BoundsFail(colliders)
       THEN /\ crashed' = TRUE
            /\ spatial_grid' = {}
            /\ narrow' = << >>
            /\ events' = << >>
            /\ history' = Append(history, << >>)
            /\ UNCHANGED combat
            /\ moves' = << >>
            /\ UNCHANGED colliders
       ELSE \E rev \in BOOLEAN :
                DetectAndResolve(update_spatial_grid(colliders),
                                 IntegrateAll(ApplyGravity(colliders), dt), rev)

\* a direct call of check_collision(collider i, collider j)
CheckCollision(i, j) ==
    /\ ~crashed
    /\ ~BoundsFail(colliders)
    /\ checks' = [checks EXCEPT ![<<i, j>>] = check_collision(colliders, i, j)]
    /\ narrow' = IF InvokesNarrowPhase(colliders, i, j) THEN <<(<<i, j>>)>> ELSE << >>
    /\ UNCHANGED <<colliders, spatial_grid, crashed, tick, events, moves, query, history, combat>>

\* a direct call of CollisionLayer.can_collide(layer1, layer2)
CanCollide(layer1, layer2) ==
    /\ query' = [op |-> "can_collide", layer1 |-> layer1, layer2 |-> layer2,
                 result |-> can_collide(layer1, layer2)]
    /\ UNCHANGED <<colliders, spatial_grid, crashed, tick, narrow, events, moves, checks, history, combat>>

\* Python's & on non-negative integers
RECURSIVE BitAnd(_, _)
BitAnd(a, b) ==
    IF a = 0 \/ b = 0 THEN 0
    ELSE (a % 2) * (b % 2) + 2 * BitAnd(a \div 2, b \div 2)

step_size == F(5)

\* the colliders the inner loop of raycast (lines 278-288) accepts at
\* current_pos; layer_mask is << >> for None and <<m>> for the mask m
RayAccepts(cs, current_pos, layer_mask) ==
    {k \in Indices(cs) :
        /\ cs[k].enabled
        /\ layer_mask = << >> \/ BitAnd(cs[k].layer, layer_mask[1]) # 0
        /\ collidepoint(get_bounds(cs[k]), to_int_tuple(current_pos))}

\* line 289: the first accepted collider in registration order
RayHit(accepted, current_pos, distance) ==
    [collider |-> CHOOSE k \in accepted : \A l \in accepted : k <= l,
     point |-> current_pos, distance |-> distance]

\* the loop of lines 275-288 from step i on
RECURSIVE RaySteps(_, _, _, _, _, _)
RaySteps(cs, start, direction, steps, layer_mask, i) ==
    IF i >= steps THEN None
    ELSE IF RayAccepts(cs, VAdd(start, VMul(direction, i * step_size)), layer_mask) # {}
    THEN RayHit(RayAccepts(cs, VAdd(start, VMul(direction, i * step_size)), layer_mask),
                VAdd(start, VMul(direction, i * step_size)), i * step_size)
    ELSE RaySteps(cs, start, direction, steps, layer_mask, i + 1)

\* CollisionSystem.raycast
raycast(cs, start, direction, max_distance, layer_mask) ==
    RaySteps(cs, start, direction, Trunc(FDiv(max_distance, step_size)), layer_mask, 0)

Raycast(start, direction, max_distance, layer_mask) ==
    /\ ~crashed
    /\ ~BoundsFail(colliders)
    /\ query' = [op |-> "raycast", start |-> start, direction |-> direction,
                 max_distance |-> max_distance, layer_mask |-> layer_mask,
                 result |-> raycast(colliders, start, direction, max_distance, layer_mask)]
    /\ UNCHANGED <<colliders, spatial_grid, crashed, tick, narrow, events, moves, checks, history, combat>>

\* the end of a direct resolve_collision call
Resolved(pair, r) ==
    /\ colliders' = r.cs
    /\ moves' = <<Move(colliders, pair, r)>>

\* a direct call of CollisionSystem.resolve_collision on the pair's CollisionData
ResolveDetected(pair) ==
    Resolved(pair, resolve_collision(colliders, pair.a, pair.b, pair.collision))

\* check_collision(i, j) followed by resolve_collision on its CollisionData
Resolve(i, j) ==
    /\ ~crashed
    /\ ~BoundsFail(colliders)
    /\ check_collision(colliders, i, j) # None
    /\ ResolveDetected([a |-> i, b |-> j, collision |-> check_collision(colliders, i, j)])
    /\ tick' = tick + 1
    /\ narrow' = <<(<<i, j>>)>>
    /\ events' = << >>
    /\ checks' = [p \in DOMAIN checks |-> [unset |-> TRUE]]
    /\ UNCHANGED <<spatial_grid, crashed, query, history, combat>>

\* a direct call of PhysicsBody.integrate(delta_time, gravity) on collider i's body
Integrate(i, dt) ==
    /\ ~crashed
    /\ colliders' = [colliders EXCEPT ![i] = integrate(colliders[i], dt, gravity)]
    /\ tick' = tick + 1
    /\ checks' = [p \in DOMAIN checks |-> [unset |-> TRUE]]
    /\ query' = [op |-> "integrate", body |-> i]
    /\ UNCHANGED <<spatial_grid, crashed, narrow, events, moves, history, combat>>

\* a direct call of PhysicsBody.apply_force(force) on collider i's body: the
\* quotient force / mass is evaluated first, and when it raises nothing is assigned
ApplyForce(i, force) ==
    /\ ~crashed
    /\ colliders' = IF truediv(force, colliders[i].mass) = ValueError THEN colliders
                    ELSE [colliders EXCEPT ![i] = apply_force(colliders[i], force)]
    /\ query' = [op |-> "apply_force", body |-> i, vector |-> force,
                 acc |-> colliders[i].acc, vel |-> colliders[i].vel,
                 raised |-> truediv(force, colliders[i].mass) = ValueError]
    /\ tick' = tick + 1
    /\ checks' = [p \in DOMAIN checks |-> [unset |-> TRUE]]
    /\ UNCHANGED <<spatial_grid, crashed, narrow, events, moves, history, combat>>

\* a direct call of PhysicsBody.apply_impulse(impulse) on collider i's body
ApplyImpulse(i, impulse) ==
    /\ ~crashed
    /\ colliders' = IF truediv(impulse, colliders[i].mass) = ValueError THEN colliders
                    ELSE [colliders EXCEPT ![i] = apply_impulse(colliders[i], impulse)]
    /\ query' = [op |-> "apply_impulse", body |-> i, vector |-> impulse,
                 acc |-> colliders[i].acc, vel |-> colliders[i].vel,
                 raised |-> truediv(impulse, colliders[i].mass) = ValueError]
    /\ tick' = tick + 1
    /\ checks' = [p \in DOMAIN checks |-> [unset |-> TRUE]]
    /\ UNCHANGED <<spatial_grid, crashed, narrow, events, moves, history, combat>>

\* an evaluation of vector / scalar
Divide(vector, scalar) ==
    /\ query' = [op |-> "truediv", vector |-> vector, scalar |-> scalar,
                 result |-> truediv(vector, scalar)]
    /\ UNCHANGED <<colliders, spatial_grid, crashed, tick, narrow, events, moves, checks, history, combat>>

\* CollisionSystem.get_colliders_in_area: the indices of the colliders
\* returned, in registration order; area is a pygame.Rect
get_colliders_in_area(cs, area, layer_mask) ==
    SelectSeq([k \in Indices(cs) |-> k],
              LAMBDA k : /\ cs[k].enabled
                         /\ layer_mask = << >> \/ BitAnd(cs[k].layer, layer_mask[1]) # 0
                         /\ colliderect(get_bounds(cs[k]), area))

GetCollidersInArea(area, layer_mask) ==
    /\ ~crashed
    /\ ~BoundsFail(colliders)
    /\ query' = [op |-> "get_colliders_in_area", area |-> area, layer_mask |-> layer_mask,
                 result |-> get_colliders_in_area(colliders, area, layer_mask)]
    /\ UNCHANGED <<colliders, spatial_grid, crashed, tick, narrow, events, moves, checks, history, combat>>

\* a call of Player.jump() on the player that owns collider i; the value
\* returned is can_jump
Jump(i) ==
    /\ ~crashed
    /\ colliders[i].owner = "player"
    /\ colliders' = [colliders EXCEPT ![i] = jump(colliders[i])]
    /\ query' = [op |-> "jump", body |-> i, before |-> colliders[i],
                 result |-> colliders[i].jump_count < max_jump_count]
    /\ tick' = tick + 1
    /\ checks' = [p \in DOMAIN checks |-> [unset |-> TRUE]]
    /\ UNCHANGED <<spatial_grid, crashed, narrow, events, moves, history, combat>>

\* a call of Player.reset_position(position) on the player that owns collider i
ResetPosition(i, position) ==
    /\ ~crashed
    /\ colliders[i].owner = "player"
    /\ colliders' = [colliders EXCEPT ![i] = reset_position(colliders[i], position)]
    /\ query' = [op |-> "reset_position", body |-> i]
    /\ tick' = tick + 1
    /\ checks' = [p \in DOMAIN checks |-> [unset |-> TRUE]]
    /\ UNCHANGED <<spatial_grid, crashed, narrow, events, moves, history, combat>>

\* a call of PhysicsBody.get_bounds(size) on collider i's body
GetBounds(i, size) ==
    /\ VFin(colliders[i].pos)
    /\ query' = [op |-> "get_bounds", body |-> i, size |-> size,
                 rect |-> get_bounds([colliders[i] EXCEPT !.size = size])]
    /\ UNCHANGED <<colliders, spatial_grid, crashed, tick, narrow, events, moves, checks, history, combat>>

----------------------------------------------------------------------------
(* Construction *)

\* PhysicsBody(position, zero velocity and acceleration) with the dataclass
\* defaults, wrapped in Collider(body, size, layer)
NewCollider(ident, pos, size, layer) ==
    [ident |-> ident, pos |-> pos, vel |-> VZero, acc |-> VZero,
     mass |-> F(1), friction |-> (8 * Q) \div 10, restitution |-> 0,
     drag |-> Q \div 100, gs |-> F(1),
     size |-> size, layer |-> layer, trigger |-> FALSE, enabled |-> TRUE,
     touching |-> {}, owner |-> "none",
     grounded |-> FALSE, pstate |-> "falling", jump_count |-> 0,
     start |-> [pos |-> pos, vel |-> VZero]]

\* the collider with its velocity at construction set to vel
Moving(c, vel) == [c EXCEPT !.vel = vel, !.start = [pos |-> c.pos, vel |-> vel]]

Pairs(n) == {p \in (1..n) \X (1..n) : p[1] # p[2]}

\* CollisionSystem.add_collider: a collider already registered is not added again
add_collider(cs, collider) ==
    IF \E k \in Indices(cs) : cs[k].ident = collider.ident THEN cs ELSE Append(cs, collider)

\* self.colliders after add_collider of each member of calls, in order
RECURSIVE Registered(_, _)
Registered(cs, calls) ==
    IF calls = << >> THEN cs ELSE Registered(add_collider(cs, Head(calls)), Tail(calls))

\* the state of a CollisionSystem after add_collider of each member of cs
World(cs) ==
    /\ colliders = cs
    /\ spatial_grid = {}
    /\ crashed = FALSE
    /\ tick = 0
    /\ narrow = << >>
    /\ events = << >>
    /\ moves = << >>
    /\ checks = [p \in Pairs(Len(cs)) |-> [unset |-> TRUE]]
    /\ query = [op |-> "none"]
    /\ history = << >>
    /\ combat = [none |-> TRUE]

----------------------------------------------------------------------------
(* Detection: check_collision on two enabled colliders *)

\* offsets of B's centre from A's, in quanta (whole and fractional pixels)
DetectOffsets == {F(0 - 60), F(0 - 25) - Q \div 2, 0, F(7), F(25) + Q \div 2, F(60)}

DetectSizesA == {Vec(F(50), F(50)), Vec(F(31), F(60))}

DetectLayers == {PLAYER, PLATFORM, PICKUP}

InitDetect ==
    \E dx \in DetectOffsets, dy \in DetectOffsets, sa \in DetectSizesA,
       la \in DetectLayers, lb \in DetectLayers :
        World(<<NewCollider(1, Vec(F(100), F(100)), sa, la),
                NewCollider(2, Vec(F(100) + dx, F(100) + dy), Vec(F(50), F(50)), lb)>>)

NextDetect == \E p \in Pairs(2) : CheckCollision(p[1], p[2])

SpecDetect == InitDetect /\ [][NextDetect]_vars

Checked(i, j) == checks[<<i, j>>] # [unset |-> TRUE]

\* C1: check_collision(A,B) returns a CollisionData iff check_collision(B,A)
\* does, and then the two normals are antiparallel
C1_Commutative ==
    (Checked(1, 2) /\ Checked(2, 1)) =>
        /\ (checks[<<1, 2>>] = None) <=> (checks[<<2, 1>>] = None)
        /\ checks[<<1, 2>>] # None =>
              checks[<<1, 2>>].normal = Vec(FNeg(checks[<<2, 1>>].normal.x),
                                            FNeg(checks[<<2, 1>>].normal.y))

\* the two colliders sit at one and the same position
C1_SameCentre ==
    /\ Checked(1, 2) /\ Checked(2, 1)
    /\ colliders[1].pos = colliders[2].pos
    /\ checks[<<1, 2>>] # None

----------------------------------------------------------------------------
(* Layers: CollisionLayer.can_collide on arbitrary values *)

MaxLayerValue == 17

InitLayers == World(<< >>)

NextLayers == \E layer1 \in 0..MaxLayerValue, layer2 \in 0..MaxLayerValue : CanCollide(layer1, layer2)

SpecLayers == InitLayers /\ [][NextLayers]_vars

\* the unordered pairs the specification lists as eligible:
\* Player-Platform, Player-Enemy, Player-Pickup, Player-Trigger, Platform-Enemy
EligiblePairs == {{1, 2}, {1, 4}, {1, 8}, {1, 16}, {2, 4}}

\* C6: can_collide(a, b) is true exactly for the five listed unordered pairs,
\* in either order, and false for every other pair of values
C6_LayerMatrix ==
    query.op = "can_collide" =>
        (query.result <=> ({query.layer1, query.layer2} \in EligiblePairs))

\* can_collide asked for an eligible pair in the order the table does not list first
C6_Asked ==
    /\ query.op = "can_collide"
    /\ query.layer1 = ENEMY /\ query.layer2 = PLATFORM
    /\ query.result = TRUE

----------------------------------------------------------------------------
(* Ticks: update and integrate on a world of two colliders *)

MaxTicks == 3

\* delta_time = 1/60 s
Dt60 == [n |-> 1, d |-> 60]

TickMasses == {F(1), PINF}

TickScales == {0, F(1)}

TickVels == {VZero, Vec(F(30), 0), Vec(0, F(40))}

TickDrags == {0, Q \div 100}

TickLayerPairs == {<<PLAYER, PLATFORM>>, <<PLATFORM, PLATFORM>>, <<PICKUP, PLATFORM>>}

TickPlaces == {Vec(F(120), F(100)), Vec(F(400), F(100))}

InitTick ==
    \E ma \in TickMasses, mb \in TickMasses, ga \in TickScales, gb \in TickScales,
       va \in TickVels, da \in TickDrags, lay \in TickLayerPairs, pb \in TickPlaces :
        World(<<Moving([NewCollider(1, Vec(F(100), F(100)), Vec(F(50), F(50)), lay[1])
                            EXCEPT !.mass = ma, !.gs = ga, !.drag = da], va),
                [NewCollider(2, pb, Vec(F(50), F(50)), lay[2])
                            EXCEPT !.mass = mb, !.gs = gb]>>)

NextTick ==
    \/ tick < MaxTicks /\ update(Dt60)
    \/ tick < MaxTicks /\ \E i \in 1..2 : Integrate(i, Dt60)

SpecTick == InitTick /\ [][NextTick]_vars

Overlapping(i, j) == colliderect(get_bounds(colliders[i]), get_bounds(colliders[j]))

\* C4 as stated: a body with gravity_scale = 0 that has collided with nothing
\* has the vertical velocity it started with, whatever its velocity and drag
C4_GravityImmune ==
    \A i \in 1..2 :
        (colliders[i].gs = 0 /\ colliders[i].touching = {})
            => colliders[i].vel.y = colliders[i].start.vel.y

\* C4 amended: the same for a body with zero drag or no vertical velocity at
\* the start; and such a body starting at rest does not move
C4_GravityImmuneWithoutVerticalDrag ==
    \A i \in 1..2 :
        (/\ colliders[i].gs = 0 /\ colliders[i].touching = {}
         /\ (colliders[i].drag = 0 \/ colliders[i].start.vel.y = 0))
            => /\ colliders[i].vel.y = colliders[i].start.vel.y
               /\ colliders[i].start.vel = VZero => colliders[i].pos = colliders[i].start.pos

\* a drag-affected body without gravity that has been integrated: its
\* horizontal speed has dropped
C4_Integrated ==
    /\ tick >= 2
    /\ colliders[1].gs = 0 /\ colliders[1].touching = {}
    /\ colliders[1].drag > 0 /\ colliders[1].mass # PINF
    /\ colliders[1].start.vel.y = 0
    /\ colliders[1].vel.x < colliders[1].start.vel.x

----------------------------------------------------------------------------
(* Layer gating: update and check_collision on every pair of layers *)

Layers == {PLAYER, PLATFORM, ENEMY, PICKUP, TRIGGER}

GateVels == {VZero, Vec(F(30), 0)}

InitGate ==
    \E la \in Layers, lb \in Layers, va \in GateVels, pb \in TickPlaces :
        World(<<Moving(NewCollider(1, Vec(F(100), F(100)), Vec(F(50), F(50)), la), va),
                NewCollider(2, pb, Vec(F(50), F(50)), lb)>>)

NextGate ==
    \/ tick < MaxTicks /\ update(Dt60)
    \/ \E p \in Pairs(2) : CheckCollision(p[1], p[2])

SpecGate == InitGate /\ [][NextGate]_vars

\* C5: a pair of enabled colliders whose layers may not collide is refused by
\* check_collision without the narrow phase being invoked, and update neither
\* displaces the pair, nor dispatches a callback for it, nor records either
\* collider in the other's touching set
C5_LayerGate ==
    \A p \in Pairs(2) :
        ({colliders[p[1]].layer, colliders[p[2]].layer} \notin EligiblePairs)
            => /\ checks[p] \in {None, [unset |-> TRUE]}
               /\ \A k \in 1..Len(narrow) : narrow[k] # p
               /\ \A k \in 1..Len(events) : <<events[k].to, events[k].other>> # p
               /\ \A k \in 1..Len(moves) : {moves[k].a, moves[k].b} # {p[1], p[2]}
               /\ colliders[p[2]].ident \notin colliders[p[1]].touching

\* an overlapping pair on layers that may not collide, ticked and queried
C5_Gated ==
    /\ tick >= 2
    /\ ~crashed
    /\ {colliders[1].layer, colliders[2].layer} \notin EligiblePairs
    /\ Overlapping(1, 2)
    /\ Checked(1, 2) /\ Checked(2, 1)
    /\ spatial_grid # {}

----------------------------------------------------------------------------
(* Static pairs: update on two overlapping infinite-mass bodies at rest *)

InitStatic ==
    \E la \in Layers, lb \in Layers, ga \in TickScales, gb \in TickScales :
        World(<<[NewCollider(1, Vec(F(100), F(100)), Vec(F(50), F(50)), la)
                    EXCEPT !.mass = PINF, !.gs = ga],
                [NewCollider(2, Vec(F(120), F(100)), Vec(F(50), F(50)), lb)
                    EXCEPT !.mass = PINF, !.gs = gb]>>)

NextStatic == tick < MaxTicks /\ update(Dt60)

SpecStatic == InitStatic /\ [][NextStatic]_vars

\* C3: two overlapping infinite-mass bodies that start at rest keep exactly
\* their initial positions through any number of update calls, whatever their
\* layers and gravity_scale
C3_StaticPairStays ==
    \A i \in 1..2 : colliders[i].pos = colliders[i].start.pos

----------------------------------------------------------------------------
(* Resolution: resolve_collision and update on an overlapping pair *)

MaxResolves == 2

\* delta_time = 0.016 s
Dt16 == [n |-> 2, d |-> 125]

ResolveMasses == {F(1), F(2), F(1000), PINF}

ResolveVels ==
    {VZero, Vec(F(10), 0), Vec(F(0 - 20), 0), Vec(0, F(15)), Vec(F(0 - 20), F(15)),
     Vec(F(1), F(15))}

\* <<size of both colliders, centre of B>>: a shallow horizontal overlap, a
\* shallow vertical one, and one of depth 550
ResolveShapes ==
    {<<Vec(F(50), F(50)), Vec(F(120), F(100))>>,
     <<Vec(F(50), F(50)), Vec(F(100), F(130))>>,
     <<Vec(F(600), F(600)), Vec(F(150), F(100))>>}

InitResolve ==
    \E ma \in ResolveMasses, mb \in ResolveMasses, va \in ResolveVels,
       ea \in {0, Q \div 2}, ta \in BOOLEAN, shape \in ResolveShapes :
        World(<<Moving([NewCollider(1, Vec(F(100), F(100)), shape[1], PLAYER)
                            EXCEPT !.mass = ma, !.restitution = ea, !.trigger = ta,
                                   !.gs = IF ma = PINF THEN 0 ELSE F(1)], va),
                [NewCollider(2, shape[2], shape[1], PLATFORM)
                            EXCEPT !.mass = mb, !.restitution = Q \div 2,
                                   !.gs = IF mb = PINF THEN 0 ELSE F(1)]>>)

NextResolve ==
    \/ tick < MaxResolves /\ \E p \in Pairs(2) : Resolve(p[1], p[2])
    \/ tick < MaxResolves /\ update(Dt16)

SpecResolve == InitResolve /\ [][NextResolve]_vars

Moved(m) == [d1 |-> VSub(m.after1.pos, m.before1.pos), d2 |-> VSub(m.after2.pos, m.before2.pos)]

\* the unit normal as a pair of integers
Unit(m) == Vec(m.normal.x \div Q, m.normal.y \div Q)

\* the depth the resolution works with
Clamped(m) == Min(m.detected, F(50))

\* the fixed-point rounding of a mass fraction (one quantum in Q) scaled by a depth
Tolerance(depth) == depth \div Q + 2

BothFinite(m) == m.before1.mass # PINF /\ m.before2.mass # PINF

BothInfinite(m) == m.before1.mass = PINF /\ m.before2.mass = PINF

Kilos(body) == body.mass \div Q

Within(a, b, tol) == Abs(a - b) <= tol

\* C2: two finite-mass bodies are moved by normal*depth*m2/(m1+m2) and
\* -normal*depth*m1/(m1+m2), so the lighter one moves strictly further; and
\* in the tested world (masses 1 and 1000) body1 has moved further than body2
\* after one update
C2_MassWeighted ==
    /\ \A k \in 1..Len(moves) :
        LET m == moves[k]
            M1 == Kilos(m.before1)
            M2 == Kilos(m.before2)
            tol == Tolerance(Clamped(m)) * (M1 + M2)
        IN  (BothFinite(m) /\ ~m.trigger) =>
              /\ Within(Moved(m).d1.x * (M1 + M2), Unit(m).x * Clamped(m) * M2, tol)
              /\ Within(Moved(m).d1.y * (M1 + M2), Unit(m).y * Clamped(m) * M2, tol)
              /\ Within(Moved(m).d2.x * (M1 + M2), 0 - Unit(m).x * Clamped(m) * M1, tol)
              /\ Within(Moved(m).d2.y * (M1 + M2), 0 - Unit(m).y * Clamped(m) * M1, tol)
              /\ M1 < M2 => Abs(Moved(m).d1.x) + Abs(Moved(m).d1.y)
                              > Abs(Moved(m).d2.x) + Abs(Moved(m).d2.y)
              /\ M2 < M1 => Abs(Moved(m).d2.x) + Abs(Moved(m).d2.y)
                              > Abs(Moved(m).d1.x) + Abs(Moved(m).d1.y)
    /\ (/\ tick = 1 /\ Len(events) > 0
        /\ colliders[1].start = [pos |-> Vec(F(100), F(100)), vel |-> Vec(F(10), 0)]
        /\ colliders[2].start.pos = Vec(F(120), F(100))
        /\ colliders[1].mass = F(1) /\ colliders[2].mass = F(1000))
       => Abs(colliders[1].pos.x - F(100)) > Abs(colliders[2].pos.x - F(120))

\* the tested world after its one update: both bodies displaced, the heavy
\* one by less
C2_Tested ==
    /\ tick = 1 /\ Len(events) > 0 /\ Len(moves) = 1
    /\ colliders[1].start = [pos |-> Vec(F(100), F(100)), vel |-> Vec(F(10), 0)]
    /\ colliders[2].start.pos = Vec(F(120), F(100))
    /\ colliders[1].mass = F(1) /\ colliders[2].mass = F(1000)
    /\ ~moves[1].trigger
    /\ Moved(moves[1]).d2.x # 0

\* the normal component of body1's velocity relative to body2, in quanta
Approach(m) ==
    Unit(m).x * (m.before1.vel.x - m.before2.vel.x)
        + Unit(m).y * (m.before1.vel.y - m.before2.vel.y)

\* how far the pair was pushed apart along the normal
Separation(m) ==
    Unit(m).x * (Moved(m).d1.x - Moved(m).d2.x) + Unit(m).y * (Moved(m).d1.y - Moved(m).d2.y)

\* C7: when the bodies already separate along the normal (positive
\* velocity_along_normal), resolution leaves both velocities, and everything
\* but the positions, as they were, and still pushes the pair apart by the
\* (clamped) depth
C7_SeparatingKeepsVelocity ==
    \A k \in 1..Len(moves) :
        LET m == moves[k]
        IN  (Approach(m) > 0 /\ ~m.trigger /\ ~BothInfinite(m)) =>
              /\ m.after1.vel = m.before1.vel
              /\ m.after2.vel = m.before2.vel
              /\ [m.after1 EXCEPT !.pos = m.before1.pos] = m.before1
              /\ [m.after2 EXCEPT !.pos = m.before2.pos] = m.before2
              /\ Within(Separation(m), Clamped(m), Tolerance(Clamped(m)))

\* a resolved pair that was separating with both bodies in motion relative
\* to each other
C7_Separating ==
    \E k \in 1..Len(moves) :
        /\ Approach(moves[k]) > 0 /\ ~moves[k].trigger /\ ~BothInfinite(moves[k])
        /\ moves[k].before1.restitution > 0
        /\ Separation(moves[k]) > 0

\* C8: a detected depth above 50 is resolved as 50: the pair separates by 50
\* in total (one finite body: exactly 50; two finite bodies: 50 split by
\* mass), and no body is ever moved by more than 50 in one resolution
C8_PenetrationClamp ==
    \A k \in 1..Len(moves) :
        LET m == moves[k]
        IN  (~m.trigger /\ ~BothInfinite(m)) =>
              /\ m.detected > F(50) =>
                    /\ Within(Separation(m), F(50), IF BothFinite(m) THEN Tolerance(F(50)) ELSE 0)
                    /\ (Kilos(m.before1) = Kilos(m.before2)) => Separation(m) = F(50)
              /\ Abs(Moved(m).d1.x) + Abs(Moved(m).d1.y) <= F(50)
              /\ Abs(Moved(m).d2.x) + Abs(Moved(m).d2.y) <= F(50)

\* a resolved overlap deeper than 50
C8_Deep ==
    \E k \in 1..Len(moves) :
        /\ moves[k].detected > F(50) /\ ~moves[k].trigger /\ ~BothInfinite(moves[k])
        /\ Separation(moves[k]) = F(50)

----------------------------------------------------------------------------
(* Landing: a falling body and a static platform, stepped by update *)

LandingTicks == 60

\* the falling body: half-height 25, at (100,100), moving down at 50
Faller(ident, owner) ==
    Moving([NewCollider(ident, Vec(F(100), F(100)), Vec(F(50), F(50)), PLAYER)
                EXCEPT !.owner = owner,
                       !.friction = IF owner = "player" THEN (85 * Q) \div 100 ELSE (8 * Q) \div 10],
           Vec(0, F(50)))

\* a Platform (game/platform.py) whose top edge is at y = 200
Ground(ident, width) ==
    [NewCollider(ident, Vec(F(100), F(225)), Vec(F(width), F(50)), PLATFORM)
        EXCEPT !.mass = PINF, !.gs = 0, !.friction = F(1), !.drag = 0]

\* identities are object addresses: either collider may have the smaller one,
\* whatever the registration order
InitLanding ==
    \E bodyFirst \in BOOLEAN, bodySmaller \in BOOLEAN,
       owner \in {"player", "none"}, width \in {100, 200} :
        LET body == Faller(IF bodySmaller THEN 1 ELSE 2, owner)
            platform == Ground(IF bodySmaller THEN 2 ELSE 1, width)
        IN  World(IF bodyFirst THEN <<body, platform>> ELSE <<platform, body>>)

NextLanding == tick < LandingTicks /\ update(Dt60)

SpecLanding == InitLanding /\ [][NextLanding]_vars

\* the index of the falling body
Body == CHOOSE i \in 1..2 : colliders[i].layer = PLAYER

\* C9: every contact reported to the falling body is classified "top", and
\* after 60 ticks the contact has been reported, a Player is grounded, the
\* vertical velocity is near zero and position.y is about 175, whichever
\* collider has the smaller identity
C9_Landing ==
    /\ \A k \in 1..Len(events) :
            events[k].to = Body => events[k].side = "top"
    /\ tick = LandingTicks =>
        /\ colliders[Body].touching # {}
        /\ colliders[Body].owner = "player" => colliders[Body].grounded
        /\ Within(colliders[Body].pos.y, F(175), F(2))
        /\ Abs(colliders[Body].vel.y) <= F(70)

----------------------------------------------------------------------------
(* Rays: raycast over a small world *)

\* the platform of the test, alone or behind a small PLAYER box, each enabled or not
InitRay ==
    \E withBox \in BOOLEAN, e1 \in BOOLEAN, e2 \in BOOLEAN :
        LET platform == [NewCollider(1, Vec(F(200), F(200)), Vec(F(100), F(50)), PLATFORM)
                            EXCEPT !.enabled = e1]
            box == [NewCollider(2, Vec(F(170), F(200)), Vec(F(60), F(20)), PLAYER)
                            EXCEPT !.enabled = e2]
        IN  World(IF withBox THEN <<platform, box>> ELSE <<platform>>)

RayStarts == {Vec(F(50), F(200)), Vec(F(50), F(50)), Vec(F(145), F(200)), Vec(F(200), F(100))}

RayDirections == {Vec(F(1), 0), Vec(0, F(1)), Vec(F(0 - 1), 0)}

RayDistances == {0, F(4), F(7), F(95), F(100), F(102), F(300)}

RayMasks == {<< >>, <<PLATFORM>>, <<PLAYER>>, <<PLAYER + PLATFORM>>, <<0>>}

\* raycast changes nothing in the system, so the calls are independent of
\* each other: one call per world covers them all
NextRay ==
    /\ query.op = "none"
    /\ \E start \in RayStarts, direction \in RayDirections,
          max_distance \in RayDistances, layer_mask \in RayMasks :
            Raycast(start, direction, max_distance, layer_mask)

SpecRay == InitRay /\ [][NextRay]_vars

\* the sample distances 0, 5, 10, ... not exceeding max_distance, in pixels
SampleDistances(max_distance) == {d \in 0..(max_distance \div Q) : d % 5 = 0}

SamplePoint(q, d) == VAdd(q.start, VMul(q.direction, F(d)))

\* the enabled, mask-matching colliders whose bounds contain the sample at d
Containing(q, d) ==
    {k \in Indices(colliders) :
        /\ colliders[k].enabled
        /\ q.layer_mask = << >> \/ BitAnd(colliders[k].layer, q.layer_mask[1]) # 0
        /\ collidepoint(get_bounds(colliders[k]), to_int_tuple(SamplePoint(q, d)))}

HitDistances(q) == {d \in SampleDistances(q.max_distance) : Containing(q, d) # {}}

\* C10: raycast returns the first enabled, mask-matching collider (in
\* registration order) containing the nearest of the samples at d = 0, 5,
\* 10, ... <= max_distance, with that sample and d, and None iff there is no
\* such sample; the test's platform is hit from (50,200) near x = 150 and
\* missed from y = 50
C10_RaycastSamples ==
    query.op = "raycast" =>
        /\ (HitDistances(query) = {}) <=> (query.result = None)
        /\ HitDistances(query) # {} =>
            LET d == CHOOSE x \in HitDistances(query) : \A y \in HitDistances(query) : x <= y
            IN  query.result =
                    [collider |-> CHOOSE k \in Containing(query, d) :
                                        \A l \in Containing(query, d) : k <= l,
                     point |-> SamplePoint(query, d), distance |-> F(d)]
        /\ (/\ Len(colliders) = 1 /\ colliders[1].enabled
            /\ query.direction = Vec(F(1), 0) /\ query.max_distance = F(300)
            /\ query.layer_mask = << >>) =>
              /\ query.start = Vec(F(50), F(200)) =>
                    /\ query.result # None
                    /\ query.result.collider = 1
                    /\ query.result.distance > 0
                    /\ Within(query.result.point.x, F(150), F(5))
              /\ query.start = Vec(F(50), F(50)) => query.result = None

----------------------------------------------------------------------------
(* Static against dynamic: checked on SpecResolve *)

OneInfinite(m) == ~BothFinite(m) /\ ~BothInfinite(m)

\* the distance between the centres of the two bounds along the normal's axis
CentreGap(m, body1, body2) ==
    IF Unit(m).x # 0
    THEN Abs(RCenterX(get_bounds(body1)) - RCenterX(get_bounds(body2)))
    ELSE Abs(RCenterY(get_bounds(body1)) - RCenterY(get_bounds(body2)))

\* C11: in a pair with exactly one infinite-mass body the infinite-mass body
\* keeps its position and velocity exactly, and the finite-mass body is
\* displaced by the whole clamped depth along the normal, away from the other
C11_StaticUnmoved ==
    \A k \in 1..Len(moves) :
        LET m == moves[k]
        IN  (OneInfinite(m) /\ ~m.trigger) =>
              /\ m.before1.mass = PINF =>
                    /\ m.after1 = m.before1
                    /\ Moved(m).d2 = Vec(0 - Unit(m).x * Clamped(m), 0 - Unit(m).y * Clamped(m))
              /\ m.before2.mass = PINF =>
                    /\ m.after2 = m.before2
                    /\ Moved(m).d1 = Vec(Unit(m).x * Clamped(m), Unit(m).y * Clamped(m))
              /\ CentreGap(m, m.after1, m.after2) > CentreGap(m, m.before1, m.before2)

\* a finite body that approached a static one obliquely: it was pushed out,
\* stopped along the normal and slowed along the tangent
C11_Oblique ==
    \E k \in 1..Len(moves) :
        /\ OneInfinite(moves[k]) /\ ~moves[k].trigger
        /\ moves[k].before2.mass = PINF
        /\ Approach(moves[k]) < 0
        /\ moves[k].after1.vel.x # moves[k].before1.vel.x
        /\ moves[k].after1.vel.y # moves[k].before1.vel.y
        /\ Moved(moves[k]).d1 # VZero

----------------------------------------------------------------------------
(* Contacts: update on two or three overlapping colliders, triggers included *)

\* registration order against identity order
ContactIdents == {<<1, 2, 3>>, <<3, 2, 1>>, <<2, 3, 1>>}

\* the width of the first collider: inside one grid cell, or across three
ContactWidths == {50, 250}

\* a PLAYER box resting into a wide static PLATFORM, and optionally an ENEMY
\* box overlapping both; the first may be handed to add_collider a second time
InitContacts ==
    \E ids \in ContactIdents, wa \in ContactWidths, withEnemy \in BOOLEAN,
       ta \in BOOLEAN, tb \in BOOLEAN, tc \in BOOLEAN, again \in BOOLEAN :
        LET a == [NewCollider(ids[1], Vec(F(100), F(100)), Vec(F(wa), F(50)), PLAYER)
                    EXCEPT !.trigger = ta]
            b == [NewCollider(ids[2], Vec(F(100), F(140)), Vec(F(250), F(50)), PLATFORM)
                    EXCEPT !.mass = PINF, !.gs = 0, !.drag = 0, !.trigger = tb]
            c == [NewCollider(ids[3], Vec(F(130), F(105)), Vec(F(50), F(50)), ENEMY)
                    EXCEPT !.trigger = tc]
        IN  World(Registered(<< >>, (IF withEnemy THEN <<a, b, c>> ELSE <<a, b>>)
                                        \o (IF again THEN <<a>> ELSE << >>)))

NextContacts == tick < MaxTicks /\ update(Dt60)

SpecContacts == InitContacts /\ [][NextContacts]_vars

\* the callbacks of update number t that went to collider i about collider j
Told(t, i, j) == SelectSeq(history[t], LAMBDA e : e.to = i /\ e.other = j)

\* was the pair reported to i before update number t
ToldBefore(t, i, j) == \E u \in 1..(t - 1) : Told(u, i, j) # << >>

\* C12: a detected pair with a trigger collider is neither displaced nor has
\* its velocities changed, yet each collider's identity is in the other's
\* touching set and both receive enter on the first detection, stay later
C12_TriggerDetectedOnly ==
    \A k \in 1..Len(moves) :
        LET m == moves[k]
            t == Len(history)
        IN  (m.trigger /\ t > 0 /\ events = history[t]) =>
              /\ m.after1 = m.before1
              /\ m.after2 = m.before2
              /\ colliders[m.b].ident \in colliders[m.a].touching
              /\ colliders[m.a].ident \in colliders[m.b].touching
              /\ \A p \in {<<m.a, m.b>>, <<m.b, m.a>>} :
                    /\ Len(Told(t, p[1], p[2])) = 1
                    /\ Told(t, p[1], p[2])[1].kind =
                          IF ToldBefore(t, p[1], p[2]) THEN "stay" ELSE "enter"

\* a trigger pair that has been detected in three updates running, still
\* overlapping and undisplaced
C12_TriggerThrice ==
    /\ Len(history) = 3 /\ events = history[3]
    /\ \E k \in 1..Len(moves) :
        /\ moves[k].trigger
        /\ moves[k].detected > 0
        /\ \A t \in 1..3 : Told(t, moves[k].a, moves[k].b) # << >>
        /\ Overlapping(moves[k].a, moves[k].b)

\* C13: in every tick a detected pair is reported to both of its colliders,
\* once each; the report is enter, and the other identity joins the touching
\* set, exactly when the identity was not yet in the set (nothing reported
\* before), otherwise it is stay: one enter, then only stays
C13_EnterThenStay ==
    /\ \A t \in 1..Len(history) : \A p \in Pairs(Len(colliders)) :
        /\ Len(Told(t, p[1], p[2])) <= 1
        /\ (Told(t, p[1], p[2]) # << >>) <=> (Told(t, p[2], p[1]) # << >>)
        /\ Told(t, p[1], p[2]) # << >> =>
              ((Told(t, p[1], p[2])[1].kind = "enter") <=> ~ToldBefore(t, p[1], p[2]))
        /\ Told(t, p[1], p[2]) # << >> => Told(t, p[1], p[2])[1].kind \in {"enter", "stay"}
    /\ \A p \in Pairs(Len(colliders)) :
        (colliders[p[2]].ident \in colliders[p[1]].touching)
            <=> ToldBefore(Len(history) + 1, p[1], p[2])
    /\ (Len(history) > 0 /\ events = history[Len(history)]) =>
            \A k \in 1..Len(moves) :
                /\ Told(Len(history), moves[k].a, moves[k].b) # << >>
                /\ Told(Len(history), moves[k].b, moves[k].a) # << >>

\* three ticks of uninterrupted overlap: each side was told enter, stay, stay
C13_EnterStayStay ==
    /\ Len(history) = 3
    /\ \E p \in Pairs(Len(colliders)) :
        /\ \A t \in 1..3 : Len(Told(t, p[1], p[2])) = 1 /\ Len(Told(t, p[2], p[1])) = 1
        /\ Told(1, p[1], p[2])[1].kind = "enter" /\ Told(1, p[2], p[1])[1].kind = "enter"
        /\ Told(2, p[1], p[2])[1].kind = "stay" /\ Told(3, p[2], p[1])[1].kind = "stay"

\* the two identities of a pair of collider indices
Idents(i, j) == {colliders[i].ident, colliders[j].ident}

\* C14: within one update no unordered pair of colliders is narrow-phase
\* tested, resolved or reported to the same collider more than once
C14_PairOnce ==
    /\ \A k \in 1..Len(narrow) : \A l \in 1..Len(narrow) :
            k # l => Idents(narrow[k][1], narrow[k][2]) # Idents(narrow[l][1], narrow[l][2])
    /\ \A k \in 1..Len(moves) : \A l \in 1..Len(moves) :
            k # l => Idents(moves[k].a, moves[k].b) # Idents(moves[l].a, moves[l].b)
    /\ \A t \in 1..Len(history) : \A k \in 1..Len(history[t]) : \A l \in 1..Len(history[t]) :
            k # l => \/ colliders[history[t][k].to].ident # colliders[history[t][l].to].ident
                     \/ colliders[history[t][k].other].ident
                            # colliders[history[t][l].other].ident
    /\ \A k \in 1..Len(colliders) : \A l \in 1..Len(colliders) :
            k # l => colliders[k].ident # colliders[l].ident

\* two colliders that share more than one grid cell have been tested,
\* resolved and reported
C14_SharedCells ==
    /\ Len(history) > 0 /\ events = history[Len(history)]
    /\ \E k \in 1..Len(moves) :
        /\ \E c1 \in GridCells(colliders[moves[k].a]), c2 \in GridCells(colliders[moves[k].a]) :
                /\ c1 # c2
                /\ {c1, c2} \subseteq GridCells(colliders[moves[k].b])
                /\ {<<c1, moves[k].a>>, <<c1, moves[k].b>>,
                    <<c2, moves[k].a>>, <<c2, moves[k].b>>} \subseteq spatial_grid
        /\ \E n \in 1..Len(narrow) : narrow[n] = <<moves[k].a, moves[k].b>>
        /\ Told(Len(history), moves[k].a, moves[k].b) # << >>

----------------------------------------------------------------------------
(* Crossing: one collider moving into another across a grid-cell border *)

CrossingVels == {VZero, Vec(F(0 - 60), 0), Vec(F(0 - 300), 0), Vec(F(0 - 600), 0)}

CrossingLayerPairs == {<<PLAYER, ENEMY>>, <<ENEMY, PLAYER>>, <<PLAYER, PLATFORM>>, <<ENEMY, PICKUP>>}

\* the x of the resting collider: its bounds end at 99 or at 95, inside cell 0
CrossingRests == {89, 85}

\* a resting box in grid cell (0,0) and a box in cell (1,0), just right of the
\* border at x = 100, moving left; neither is subject to gravity
InitCrossing ==
    \E v \in CrossingVels, lp \in CrossingLayerPairs, x \in CrossingRests,
       moverSmaller \in BOOLEAN, tb \in BOOLEAN :
        World(<<[NewCollider(IF moverSmaller THEN 2 ELSE 1, Vec(F(x), F(50)),
                             Vec(F(20), F(20)), lp[1]) EXCEPT !.gs = 0],
                Moving([NewCollider(IF moverSmaller THEN 1 ELSE 2, Vec(F(110), F(50)),
                                    Vec(F(20), F(20)), lp[2])
                            EXCEPT !.gs = 0, !.trigger = tb], v)>>)

NextCrossing == tick < MaxTicks /\ update(Dt60)

SpecCrossing == InitCrossing /\ [][NextCrossing]_vars

\* the last operation was an update
Updated == query.op = "update" /\ ~crashed

\* C15: after an update in which no pair was resolved the bodies are where
\* the integration put them; then the grid is the one built from these
\* positions, and every enabled layer-eligible pair whose bounds intersect
\* there has been detected (tested, resolved and reported) in that update
C15_GridAfterIntegration ==
    (Updated /\ moves = << >>) =>
        /\ spatial_grid = update_spatial_grid(colliders)
        /\ \A p \in Pairs(Len(colliders)) :
            ~(/\ colliders[p[1]].enabled /\ colliders[p[2]].enabled
              /\ can_collide(colliders[p[1]].layer, colliders[p[2]].layer)
              /\ Overlapping(p[1], p[2]))

----------------------------------------------------------------------------
(* Forces: apply_force, integrate and update on a box over a platform *)

Forces == {Vec(F(100), 0), Vec(0, F(0 - 500))}

\* a box of mass 1 or 2, enabled or not, with or without gravity, above or
\* in a static platform
InitForce ==
    \E ma \in {F(1), F(2)}, ga \in {0, F(1)}, ea \in BOOLEAN, y \in {100, 30} :
        World(<<[NewCollider(1, Vec(F(100), F(y)), Vec(F(50), F(50)), PLAYER)
                    EXCEPT !.mass = ma, !.gs = ga, !.enabled = ea],
                [NewCollider(2, Vec(F(100), F(140)), Vec(F(250), F(50)), PLATFORM)
                    EXCEPT !.mass = PINF, !.gs = 0, !.drag = 0]>>)

NextForce ==
    \/ tick < MaxTicks /\ \E i \in 1..2, force \in Forces : ApplyForce(i, force)
    \/ tick < MaxTicks /\ \E i \in 1..2 : Integrate(i, Dt60)
    \/ tick < MaxTicks /\ update(Dt60)

SpecForce == InitForce /\ [][NextForce]_vars

\* C16: after an integrate call the body's acceleration is the zero vector,
\* and after an update so is that of every enabled collider's body
C16_AccelerationReset ==
    /\ query.op = "integrate" => colliders[query.body].acc = VZero
    /\ Updated => \A i \in 1..Len(colliders) :
                        colliders[i].enabled => colliders[i].acc = VZero

\* a force was applied to an enabled body at rest without gravity, then an
\* update integrated it: the velocity has the force in it, the acceleration
\* is zero again
C16_ForceSpent ==
    /\ Updated
    /\ tick = 2
    /\ colliders[1].enabled /\ colliders[1].gs = 0
    /\ colliders[1].vel.x > 0
    /\ colliders[1].acc = VZero

----------------------------------------------------------------------------
(* Contacts that end: checked on SpecContacts *)

----------------------------------------------------------------------------
(* Faulty callbacks: update on three overlapping colliders, one of which has
   callbacks that raise *)

FaultyOwners == {"faulty", "faulty_enter"}

InitFaulty ==
    \E ids \in ContactIdents, who \in 1..3, owner \in FaultyOwners, ta \in BOOLEAN :
        LET a == [NewCollider(ids[1], Vec(F(100), F(100)), Vec(F(50), F(50)), PLAYER)
                    EXCEPT !.trigger = ta]
            b == [NewCollider(ids[2], Vec(F(100), F(140)), Vec(F(250), F(50)), PLATFORM)
                    EXCEPT !.mass = PINF, !.gs = 0, !.drag = 0]
            c == NewCollider(ids[3], Vec(F(130), F(105)), Vec(F(50), F(50)), ENEMY)
        IN  World([<<a, b, c>> EXCEPT ![who].owner = owner])

NextFaulty == tick < MaxTicks /\ update(Dt60)

SpecFaulty == InitFaulty /\ [][NextFaulty]_vars

\* the place of the unordered pair {i, j} in the order of the narrow-phase
\* calls of the last update (0 when it was not tested)
PlaceOf(i, j) ==
    IF \E n \in 1..Len(narrow) : {narrow[n][1], narrow[n][2]} = {i, j}
    THEN CHOOSE n \in 1..Len(narrow) : {narrow[n][1], narrow[n][2]} = {i, j}
    ELSE 0

\* the collider i as the last resolution that involved it left it
LeftBy(i) ==
    LET last == CHOOSE k \in 1..Len(moves) :
                    /\ i \in {moves[k].a, moves[k].b}
                    /\ \A l \in (k + 1)..Len(moves) : i \notin {moves[l].a, moves[l].b}
    IN  IF moves[last].a = i THEN moves[last].after1 ELSE moves[last].after2

\* the collider i of the initial world after the gravity and integration of
\* one update
FirstIntegration(i) ==
    IntegrateAll(ApplyGravity(<<[colliders[i] EXCEPT !.pos = colliders[i].start.pos,
                                                     !.vel = colliders[i].start.vel]>>),
                 Dt60)[1]

\* C18: when a callback raises in an update, nothing is dispatched after it
\* and no pair later in the tick's pair list is resolved or reported; the
\* resolutions made up to then and the tick's integration stay in effect;
\* the raising collider already holds the other identity in its touching
\* set, so that after a raising enter the next tick's report to it is stay
C18_CallbackRaises ==
    /\ \A t \in 1..Len(history) : \A k \in 1..Len(history[t]) :
        history[t][k].raised =>
            /\ k = Len(history[t])
            /\ colliders[history[t][k].other].ident \in colliders[history[t][k].to].touching
            /\ (history[t][k].kind = "enter" /\ t < Len(history)) =>
                    \A n \in 1..Len(Told(t + 1, history[t][k].to, history[t][k].other)) :
                        Told(t + 1, history[t][k].to, history[t][k].other)[n].kind = "stay"
    /\ (Updated /\ Len(events) > 0 /\ events[Len(events)].raised) =>
        LET r == events[Len(events)]
        IN  /\ Len(moves) > 0
            /\ {moves[Len(moves)].a, moves[Len(moves)].b} = {r.to, r.other}
            /\ \A k \in 1..Len(moves) : PlaceOf(moves[k].a, moves[k].b) <= PlaceOf(r.to, r.other)
            /\ \A k \in 1..Len(events) :
                    PlaceOf(events[k].to, events[k].other) <= PlaceOf(r.to, r.other)
            /\ \A i \in 1..Len(colliders) :
                IF \E k \in 1..Len(moves) : i \in {moves[k].a, moves[k].b}
                THEN /\ colliders[i].pos = LeftBy(i).pos
                     /\ colliders[i].vel = LeftBy(i).vel
                ELSE tick = 1 =>
                        /\ colliders[i].pos = FirstIntegration(i).pos
                        /\ colliders[i].vel = FirstIntegration(i).vel

\* an enter callback raised in the first update while a pair later in the
\* list, still overlapping, was left unresolved and unreported
C18_Aborted ==
    /\ Updated /\ tick = 1 /\ Len(events) > 0
    /\ events[Len(events)].raised /\ events[Len(events)].kind = "enter"
    /\ \E n \in 1..Len(narrow) :
        /\ n > PlaceOf(events[Len(events)].to, events[Len(events)].other)
        /\ Overlapping(narrow[n][1], narrow[n][2])
        /\ Told(1, narrow[n][1], narrow[n][2]) = << >>
        /\ \A k \in 1..Len(moves) : {moves[k].a, moves[k].b} # {narrow[n][1], narrow[n][2]}

----------------------------------------------------------------------------
(* A single body: vector division, forces, impulses and bounds *)

\* whole, fractional and negative coordinates
BodyPositions ==
    {Vec(F(100), F(100)), Vec(F(100) + 500, F(99) + 500),
     Vec(F(0 - 100), F(0 - 30)), Vec(0 - 500, 300)}

\* even, odd and fractional sizes
BodySizes == {Vec(F(50), F(50)), Vec(F(51), F(51)), Vec(F(50) + 500, F(20)), Vec(F(1), F(1))}

InitBody ==
    \E mass \in {0, F(1), F(2)}, pos \in BodyPositions :
        World(<<[NewCollider(1, pos, Vec(F(50), F(50)), PLAYER) EXCEPT !.mass = mass]>>)

NextBody ==
    \/ tick < MaxTicks /\ \E force \in Forces : ApplyForce(1, force)
    \/ tick < MaxTicks /\ \E impulse \in Forces : ApplyImpulse(1, impulse)
    \/ \E vector \in Forces, scalar \in {0, F(2), F(0 - 4)} : Divide(vector, scalar)
    \/ \E size \in BodySizes : GetBounds(1, size)

SpecBody == InitBody /\ [][NextBody]_vars

IsVector(v) == DOMAIN v = {"x", "y"}

\* C19: vector / 0 raises ValueError and yields no vector, its operand being
\* left as it was, while a non-zero scalar yields a vector; apply_force and
\* apply_impulse on a body of mass 0 raise and leave the body's acceleration
\* and velocity as they were before the call
C19_ZeroDivision ==
    /\ query.op = "truediv" =>
        /\ query.vector \in Forces
        /\ IF query.scalar = 0
           THEN query.result = ValueError /\ ~IsVector(query.result)
           ELSE IsVector(query.result)
    /\ query.op \in {"apply_force", "apply_impulse"} =>
        /\ query.raised <=> colliders[query.body].mass = 0
        /\ query.raised => /\ colliders[query.body].acc = query.acc
                           /\ colliders[query.body].vel = query.vel

\* both calls have failed on a body of mass 0: an impulse after a force
C19_MasslessPushed ==
    /\ query.op = "apply_impulse" /\ query.raised
    /\ colliders[query.body].mass = 0
    /\ tick = 2

\* C20: the rectangle get_bounds returns has the width and height of the size
\* given and its centre at the body's position
C20_CentredBounds ==
    query.op = "get_bounds" =>
        /\ F(query.rect.w) = query.size.x
        /\ F(query.rect.h) = query.size.y
        /\ F(RCenterX(query.rect)) = colliders[query.body].pos.x
        /\ F(RCenterY(query.rect)) = colliders[query.body].pos.y

----------------------------------------------------------------------------
(* Jumps: a Player just above a platform, stepped by update, jump and
   reset_position *)

JumpTicks == 5

\* the player's collider reaches into the platform (top edge at y = 200)
\* by one pixel and moves down at 50, standing still or walking, coming
\* down from a jump or not
InitJump ==
    \E playerSmaller \in BOOLEAN, vx \in {0, F(200)}, jumped \in 0..max_jump_count :
        World(<<Moving([Faller(IF playerSmaller THEN 1 ELSE 2, "player")
                            EXCEPT !.pos = Vec(F(100), F(176)), !.jump_count = jumped],
                       Vec(vx, F(50))),
                Ground(IF playerSmaller THEN 2 ELSE 1, 200)>>)

NextJump ==
    \/ tick < JumpTicks /\ update(Dt60)
    \/ tick < JumpTicks /\ Jump(1)
    \/ tick < JumpTicks /\ ResetPosition(1, Vec(F(100), F(300)))

SpecJump == InitJump /\ [][NextJump]_vars

\* what Player.jump did, as told by the record of the call
JumpContract ==
    query.op = "jump" =>
        /\ query.result <=> query.before.jump_count < max_jump_count
        /\ query.result =>
            /\ colliders[query.body].vel = Vec(query.before.vel.x, FNeg(jump_force))
            /\ colliders[query.body].jump_count = query.before.jump_count + 1
            /\ ~colliders[query.body].grounded
            /\ colliders[query.body].pstate = "jumping"
        /\ ~query.result => colliders[query.body] = query.before

\* jump_count grows only by a successful jump, and then by one
CountedJump ==
    colliders'[1].jump_count > colliders[1].jump_count =>
        /\ query'.op = "jump" /\ query'.result
        /\ colliders'[1].jump_count = colliders[1].jump_count + 1

\* C21: jump succeeds exactly when jump_count < max_jump_count; a successful
\* jump sets the vertical velocity to -jump_force, keeps the horizontal one,
\* adds one to jump_count, clears is_grounded and enters JUMPING; a failed
\* jump changes nothing; jump_count counts the successful jumps since it was
\* last reset to 0 and never exceeds max_jump_count
C21_JumpLimit ==
    /\ [](JumpContract /\ colliders[1].jump_count <= max_jump_count)
    /\ [][CountedJump]_vars

\* a jump refused after a successful one while walking
C21_Refused ==
    /\ query.op = "jump" /\ ~query.result
    /\ colliders[1].jump_count = max_jump_count
    /\ colliders[1].pstate = "jumping"
    /\ colliders[1].vel.x # 0

----------------------------------------------------------------------------
(* The narrow phase, on the detection worlds *)

\* the number of pixel columns (or rows) the spans [lo1, hi1) and [lo2, hi2)
\* have in common
Shared(lo1, hi1, lo2, hi2) ==
    Cardinality({x \in lo1..(hi1 - 1) : lo2 <= x /\ x < hi2})

OverlapX(i, j) ==
    Shared(get_bounds(colliders[i]).left, RRight(get_bounds(colliders[i])),
           get_bounds(colliders[j]).left, RRight(get_bounds(colliders[j])))

OverlapY(i, j) ==
    Shared(get_bounds(colliders[i]).top, RBottom(get_bounds(colliders[i])),
           get_bounds(colliders[j]).top, RBottom(get_bounds(colliders[j])))

\* the collision data d describes bounds i against bounds j as the claim says
NarrowContract(d, i, j) ==
    /\ OverlapX(i, j) > 0 /\ OverlapY(i, j) > 0
    /\ d.depth > 0
    /\ IF OverlapX(i, j) < OverlapY(i, j)
       THEN /\ d.depth = F(OverlapX(i, j))
            /\ d.normal = IF RCenterX(get_bounds(colliders[i])) < RCenterX(get_bounds(colliders[j]))
                          THEN Vec(F(0 - 1), 0) ELSE Vec(F(1), 0)
       ELSE /\ d.depth = F(OverlapY(i, j))
            /\ d.normal = IF RCenterY(get_bounds(colliders[i])) < RCenterY(get_bounds(colliders[j]))
                          THEN Vec(0, F(0 - 1)) ELSE Vec(0, F(1))
    /\ d.side = "right" <=> d.normal = Vec(F(0 - 1), 0)
    /\ d.side = "left" <=> d.normal = Vec(F(1), 0)
    /\ d.side = "bottom" <=> d.normal = Vec(0, F(0 - 1))
    /\ d.side = "top" <=> d.normal = Vec(0, F(1))
    /\ d.side \in {"right", "left", "bottom", "top"}

\* C22: for intersecting bounds the collision data is taken along the axis of
\* the strictly smaller overlap (the vertical one on a tie), its depth is that
\* overlap and positive, its normal is the unit axis vector from the second
\* rectangle toward the first as the comparison of the centres tells, and the
\* side goes with the normal: right (-1,0), left (1,0), bottom (0,-1), top (0,1)
C22_SmallerOverlapAxis ==
    \A p \in Pairs(2) :
        (Checked(p[1], p[2]) /\ checks[p] # None) => NarrowContract(checks[p], p[1], p[2])

\* the two overlaps are equal, the centres differ on both axes, and the data
\* is vertical
C22_Tie ==
    /\ Checked(1, 2) /\ checks[<<1, 2>>] # None
    /\ OverlapX(1, 2) = OverlapY(1, 2)
    /\ colliders[1].pos.x # colliders[2].pos.x
    /\ checks[<<1, 2>>].normal.x = 0

----------------------------------------------------------------------------
(* The velocity response, on the resolution worlds *)

\* the normal component of body1's velocity relative to body2 after the
\* resolution, in quanta
Rebound(m) ==
    Unit(m).x * (m.after1.vel.x - m.after2.vel.x)
        + Unit(m).y * (m.after1.vel.y - m.after2.vel.y)

\* the combined restitution, in quanta
Bounce(m) == Min(m.before1.restitution, m.before2.restitution)

\* the rounding of the fixed-point quotients of the impulse: five quanta
ImpulseTolerance == 5 * Q

\* C23: whenever the velocity impulse is applied (velocity along the normal
\* not positive, no trigger, not both masses infinite) the relative velocity
\* along the normal afterwards is -e times the one before, e the smaller of
\* the two restitutions, whether both masses are finite or one is infinite;
\* with e = 0 no approach velocity along the normal is left
C23_Restitution ==
    \A k \in 1..Len(moves) :
        (Approach(moves[k]) <= 0 /\ ~moves[k].trigger /\ ~BothInfinite(moves[k])) =>
            /\ Within(Rebound(moves[k]) * Q, 0 - Bounce(moves[k]) * Approach(moves[k]),
                      ImpulseTolerance)
            /\ Bounce(moves[k]) = 0 => Within(Rebound(moves[k]), 0, 5)

\* an approaching pair whose first body has infinite mass bounced back at
\* half the approach speed
C23_BouncedOffStatic ==
    \E k \in 1..Len(moves) :
        /\ Approach(moves[k]) < 0 /\ ~moves[k].trigger
        /\ moves[k].before1.mass = PINF /\ moves[k].before2.mass # PINF
        /\ Bounce(moves[k]) > 0
        /\ Rebound(moves[k]) > 0

----------------------------------------------------------------------------
(* Gravity per tick, on the tick worlds *)

\* the velocity collider i has gained since construction
Gained(i) == VSub(colliders[i].vel, colliders[i].start.vel)

\* C24: in one update(dt) an enabled finite-mass body with gravity_scale
\* s > 0, zero drag and no collision gains the velocity gravity * s * dt,
\* the gravity being accumulated into the acceleration once
C24_GravityOnce ==
    (Updated /\ tick = 1 /\ Len(events) = 0 /\ Len(moves) = 0) =>
        \A i \in 1..Len(colliders) :
            (/\ colliders[i].enabled /\ colliders[i].mass # PINF
             /\ colliders[i].gs > 0 /\ colliders[i].drag = 0) =>
                /\ Gained(i).x = 0
                /\ Within(Gained(i).y, TimesDt(FMul(gravity.y, colliders[i].gs), Dt60), 2)

----------------------------------------------------------------------------
(* The data handed to the callbacks, on the landing worlds *)

\* the narrow phase's answer for the receiver of event e against the other
\* collider of its pair, on the bounds the pair had when move m resolved it
SeenBy(e, m) ==
    IF e.to = m.a
    THEN aabb_collision_data(get_bounds(m.before1), get_bounds(m.before2))
    ELSE aabb_collision_data(get_bounds(m.before2), get_bounds(m.before1))

\* C25: the CollisionData a callback receives names the other collider's
\* body as other_body and carries the side and the normal of the contact as
\* seen from the receiver, for both colliders of the pair; the body resting
\* on the platform is told the same side whichever of the two is first
C25_ReceiverView ==
    /\ \A k \in 1..Len(events) :
        /\ events[k].other_body = colliders[events[k].other].ident
        /\ Len(moves) = 1 =>
            /\ events[k].side = SeenBy(events[k], moves[1]).side
            /\ events[k].normal = SeenBy(events[k], moves[1]).normal
    /\ \A k \in 1..Len(events) : events[k].to = Body => events[k].side = "bottom"

----------------------------------------------------------------------------
(* Detection before resolution, on the contact worlds *)

\* collider i as the detection phase saw it: as it was before the first
\* resolution of the tick that involved it
AtDetection(i) ==
    LET first == CHOOSE k \in 1..Len(moves) :
                    /\ i \in {moves[k].a, moves[k].b}
                    /\ \A l \in 1..(k - 1) : i \notin {moves[l].a, moves[l].b}
    IN  IF moves[first].a = i THEN moves[first].before1 ELSE moves[first].before2

\* the narrow phase on the pair of move m as the detection phase saw it
Measured(m) ==
    aabb_collision_data(get_bounds(AtDetection(m.a)), get_bounds(AtDetection(m.b)))

\* C26: every pair of a tick is resolved with the normal and the depth the
\* narrow phase measured before the tick's first correction, in the order of
\* the narrow-phase tests, and a solid pair with a finite mass is pushed apart
\* by that depth (at most 50) even when an earlier correction of the tick has
\* already ended its overlap
C26_DetectThenResolve ==
    Updated =>
        \A k \in 1..Len(moves) :
            /\ Measured(moves[k]) # None
            /\ moves[k].normal = Measured(moves[k]).normal
            /\ moves[k].detected = Measured(moves[k]).depth
            /\ (~moves[k].trigger /\ ~BothInfinite(moves[k])) =>
                    Within(Separation(moves[k]), Clamped(moves[k]),
                           Tolerance(Clamped(moves[k])))
            /\ \A l \in (k + 1)..Len(moves) :
                    PlaceOf(moves[k].a, moves[k].b) < PlaceOf(moves[l].a, moves[l].b)

\* a body resolved against two colliders in one tick, the second time for an
\* overlap that the first correction had already ended
C26_StaleCorrection ==
    /\ Updated
    /\ \E k \in 1..Len(moves), l \in 1..Len(moves) :
        /\ k < l
        /\ {moves[k].a, moves[k].b} \cap {moves[l].a, moves[l].b} # {}
        /\ ~moves[l].trigger /\ ~BothInfinite(moves[l])
        /\ ~colliderect(get_bounds(moves[l].before1), get_bounds(moves[l].before2))
        /\ Separation(moves[l]) > 0

----------------------------------------------------------------------------
(* Separation: one body at rest against a static one, stepped by update *)

\* centres of the body: whole, fractional, negative, and fractional with the
\* left or top edge of the bounds within a pixel of the origin
BodyCentres == {F(100), F(100) + 500, F(0 - 100) - 500, F(25) + 500}

\* offsets of the static collider's centre from the body's centre, less the
\* fraction: shallow overlaps from each side and a corner
StaticOffsets ==
    {Vec(F(49), 0), Vec(F(0 - 49), 0), Vec(0, F(45)), Vec(0, F(0 - 45)), Vec(F(30), F(40))}

InitSeparate ==
    \E x \in BodyCentres, y \in BodyCentres, off \in StaticOffsets, bodySmaller \in BOOLEAN :
        World(<<[NewCollider(IF bodySmaller THEN 1 ELSE 2, Vec(x, y), Vec(F(50), F(50)), PLAYER)
                    EXCEPT !.gs = 0],
                [NewCollider(IF bodySmaller THEN 2 ELSE 1,
                             Vec(F(Trunc(x)) + off.x, F(Trunc(y)) + off.y),
                             Vec(F(50), F(50)), PLATFORM)
                    EXCEPT !.mass = PINF, !.gs = 0, !.drag = 0]>>)

NextSeparate == tick < MaxTicks /\ update(Dt60)

SpecSeparate == InitSeparate /\ [][NextSeparate]_vars

\* C27: with two colliders registered, a solid pair with exactly one
\* infinite mass and a detected depth of at most 50 has bounds that no longer
\* intersect at the end of the update that resolved it
C27_SeparatedAfterTick ==
    (/\ Updated /\ Len(colliders) = 2 /\ Len(moves) = 1
     /\ ~moves[1].trigger /\ OneInfinite(moves[1]) /\ moves[1].detected <= F(50))
        => ~Overlapping(1, 2)

----------------------------------------------------------------------------
(* Disabled colliders: update and the three queries on a box in a platform,
   either of them enabled or not; raycast and get_colliders_in_area change
   nothing, so one such query between two updates covers them all *)

\* the box may carry an acceleration left by an earlier apply_force
InitDisabled ==
    \E e1 \in BOOLEAN, e2 \in BOOLEAN, acc \in {VZero, Vec(F(100), 0)}, boxSmaller \in BOOLEAN :
        World(<<[Moving(NewCollider(IF boxSmaller THEN 1 ELSE 2, Vec(F(170), F(180)),
                                    Vec(F(60), F(20)), PLAYER), Vec(F(30), 0))
                    EXCEPT !.enabled = e1, !.acc = acc],
                [NewCollider(IF boxSmaller THEN 2 ELSE 1, Vec(F(200), F(200)),
                             Vec(F(100), F(50)), PLATFORM)
                    EXCEPT !.enabled = e2, !.mass = PINF, !.gs = 0, !.drag = 0]>>)

NextDisabled ==
    \/ tick < MaxTicks /\ update(Dt60)
    \/ \E p \in Pairs(2) : CheckCollision(p[1], p[2])
    \/ /\ query.op \in {"none", "update"}
       /\ \E ray \in {<<Vec(F(50), F(180)), Vec(F(1), 0)>>, <<Vec(F(190), F(100)), Vec(0, F(1))>>},
             layer_mask \in {<< >>, <<PLATFORM>>} :
                Raycast(ray[1], ray[2], F(150), layer_mask)
    \/ /\ query.op \in {"none", "update"}
       /\ \E area \in {Rect(F(100), F(100), F(200), F(200)), Rect(F(140), F(170), F(5), F(5))},
             layer_mask \in {<< >>, <<PLAYER>>} :
                GetCollidersInArea(area, layer_mask)

SpecDisabled == InitDisabled /\ [][NextDisabled]_vars

Disabled == {i \in 1..Len(colliders) : ~colliders[i].enabled}

\* no phase of the last update touched a disabled collider, and no query
\* returned one
DisabledUnseen ==
    /\ \A i \in Disabled :
        /\ \A entry \in spatial_grid : entry[2] # i
        /\ \A k \in 1..Len(narrow) : i \notin {narrow[k][1], narrow[k][2]}
        /\ \A k \in 1..Len(moves) : i \notin {moves[k].a, moves[k].b}
        /\ \A k \in 1..Len(events) : i \notin {events[k].to, events[k].other}
        /\ \A p \in Pairs(2) : (Checked(p[1], p[2]) /\ i \in {p[1], p[2]}) => checks[p] = None
    /\ (query.op = "raycast" /\ query.result # None) => query.result.collider \notin Disabled
    /\ query.op = "get_colliders_in_area" =>
            \A k \in 1..Len(query.result) : query.result[k] \notin Disabled

\* no step changes a disabled collider
DisabledFrozen ==
    \A i \in 1..Len(colliders) : ~colliders[i].enabled => colliders'[i] = colliders[i]

\* C28: a disabled collider is skipped by every phase of update (gravity,
\* integration, grid, candidates, resolution, callbacks on either side), is
\* never returned by check_collision, raycast or get_colliders_in_area, and
\* its body's position, velocity and acceleration are the same after an
\* update as before
C28_DisabledSkipped == []DisabledUnseen /\ [][DisabledFrozen]_vars

\* an update has run with the disabled box inside the enabled platform, the
\* box holding a velocity and an acceleration
C28_DisabledInContact ==
    /\ Updated /\ tick = 2
    /\ Disabled = {1}
    /\ Overlapping(1, 2)
    /\ colliders[1].acc # VZero /\ colliders[1].vel # VZero
    /\ spatial_grid # {}

----------------------------------------------------------------------------
(* Friction, on the resolution worlds *)

\* the component across the normal of body1's velocity relative to body2,
\* before and after the resolution, in quanta
SlideBefore(m) ==
    Unit(m).y * (m.before1.vel.x - m.before2.vel.x)
        - Unit(m).x * (m.before1.vel.y - m.before2.vel.y)

SlideAfter(m) ==
    Unit(m).y * (m.after1.vel.x - m.after2.vel.x)
        - Unit(m).x * (m.after1.vel.y - m.after2.vel.y)

\* C29: the friction step never reverses the pair's relative tangential
\* velocity and never makes it larger than it was
C29_FrictionOnlySlows ==
    \A k \in 1..Len(moves) :
        (~moves[k].trigger /\ ~BothInfinite(moves[k])) =>
            /\ Sgn(SlideAfter(moves[k])) * Sgn(SlideBefore(moves[k])) >= 0
            /\ Abs(SlideAfter(moves[k])) <= Abs(SlideBefore(moves[k]))

----------------------------------------------------------------------------
(* Combat (game/combat.py, game/player.py, game/wolf.py, game/health.py and
   PlayingState.update of game/game_state_manager.py).  Times are counted in
   units of 1/600 s, in which the frame times 1/60 s and 1/10 s, the weapon
   cooldown 1/1.5 s and the durations 0.3 s and 0.5 s are whole.  The combat
   state is a record: the weapon's last_attack_time, attack_animation_timer
   and is_attacking (weapon), the player's is_attacking (player),
   input_attack, facing_right and position, and the wolf's health fields,
   marked_for_removal and bounds.  started and owed remember the last attack
   Player.attack started: whether there was one, and the wolf's health then
   if the wolf was alive with its bounds in the attack area (-1 otherwise). *)

Seconds(n, d) == (600 * n) \div d

\* Shashka: damage 25, range 50, attack_speed 1.5; Weapon: animation 0.3 s
weapon_damage == 25

weapon_range == 50

cooldown == Seconds(2, 3)

attack_animation_duration == Seconds(3, 10)

\* Wolf: HealthComponent(max_health=50), 0.5 s of invulnerability when hurt
wolf_max_health == 50

hurt_invulnerability == Seconds(1, 2)

\* Weapon.can_attack
can_attack(f) == f.last_attack_time >= cooldown

\* Weapon.start_attack
start_attack(f) ==
    IF can_attack(f)
    THEN [f EXCEPT !.weapon = TRUE, !.attack_animation_timer = 0, !.last_attack_time = 0]
    ELSE f

\* Weapon.update(delta_time)
Weapon_update(f, delta_time) ==
    LET g == [f EXCEPT !.last_attack_time = f.last_attack_time + delta_time]
    IN  IF ~g.weapon THEN g
        ELSE IF g.attack_animation_timer + delta_time >= attack_animation_duration
        THEN [g EXCEPT !.weapon = FALSE, !.attack_animation_timer = 0]
        ELSE [g EXCEPT !.attack_animation_timer = g.attack_animation_timer + delta_time]

\* Weapon.get_attack_area(wielder_pos, facing_right)
get_attack_area(f) ==
    IF f.facing_right
    THEN Rect(f.position.x, FSub(f.position.y, FDiv(F(40), F(2))), F(weapon_range), F(40))
    ELSE Rect(FSub(f.position.x, F(weapon_range)), FSub(f.position.y, FDiv(F(40), F(2))),
              F(weapon_range), F(40))

\* the wolf is alive with its bounds in the attack area
InReach(f) == f.is_alive /\ colliderect(get_attack_area(f), f.bounds)

\* Player.attack; started and owed remember the attack it starts
attack(f) ==
    IF can_attack(f)
    THEN [start_attack(f) EXCEPT !.player = TRUE, !.started = TRUE,
                                 !.owed = IF InReach(f) THEN f.current_health ELSE 0 - 1]
    ELSE f

\* Player.update(delta_time), as far as the attack goes: the weapon update
\* and the attack flag (lines 330-332), then the attack input of
\* _handle_input (lines 403-404)
Player_update(f, delta_time) ==
    LET g == Weapon_update(f, delta_time)
        h == IF ~g.weapon THEN [g EXCEPT !.player = FALSE] ELSE g
    IN  IF h.input_attack THEN attack(h) ELSE h

\* HealthComponent.take_damage(damage) on the wolf, with Wolf._on_damage and
\* Wolf._on_death as its callbacks
take_damage(f, damage) ==
    IF ~f.is_alive \/ f.is_invulnerable \/ damage <= 0 THEN f
    ELSE IF f.current_health - damage <= 0
    THEN [f EXCEPT !.current_health = 0, !.is_alive = FALSE, !.marked_for_removal = TRUE,
                   !.is_invulnerable = TRUE, !.invulnerability_timer = hurt_invulnerability]
    ELSE [f EXCEPT !.current_health = f.current_health - damage,
                   !.is_invulnerable = TRUE, !.invulnerability_timer = hurt_invulnerability]

\* CombatSystem.perform_attack(player, player.weapon, wolves) with the one
\* wolf as the targets
perform_attack(f) ==
    IF ~can_attack(f) THEN f
    ELSE LET g == start_attack(f)
         IN  IF InReach(g) THEN take_damage(g, weapon_damage) ELSE g

\* HealthComponent.update(delta_time) within Wolf.update, for a wolf that is
\* alive and still listed
Wolf_update(f, delta_time) ==
    IF f.marked_for_removal \/ ~f.is_alive \/ ~f.is_invulnerable THEN f
    ELSE IF f.invulnerability_timer - delta_time <= 0
    THEN [f EXCEPT !.is_invulnerable = FALSE, !.invulnerability_timer = 0]
    ELSE [f EXCEPT !.invulnerability_timer = f.invulnerability_timer - delta_time]

\* PlayingState.update(delta_time) with the attack input of the frame; the
\* player and the wolf are held in place
PlayingState_update(delta_time, input_attack) ==
    /\ combat # [none |-> TRUE]
    /\ LET f == Player_update([combat EXCEPT !.input_attack = input_attack], delta_time)
       IN  combat' = Wolf_update(IF f.player THEN perform_attack(f) ELSE f, delta_time)
    /\ tick' = tick + 1
    /\ query' = [op |-> "playing_update", input_attack |-> input_attack]
    /\ UNCHANGED <<colliders, spatial_grid, crashed, narrow, events, moves, checks, history>>

FightFrames == 6

\* a player at (100, 300) facing either way, a weapon just built or one whose
\* cooldown has run out, and a wolf of size 64x48 whose centre is 40 to the
\* right of the player, 300 to the right, or 40 to the left
InitFight ==
    \E facing_right \in BOOLEAN, dx \in {40, 300, 0 - 40}, waited \in {0, cooldown} :
        /\ colliders = << >>
        /\ spatial_grid = {}
        /\ crashed = FALSE
        /\ tick = 0
        /\ narrow = << >>
        /\ events = << >>
        /\ moves = << >>
        /\ checks = << >>
        /\ query = [op |-> "none"]
        /\ history = << >>
        /\ combat = [last_attack_time |-> waited, attack_animation_timer |-> 0, weapon |-> FALSE,
                     player |-> FALSE, input_attack |-> FALSE,
                     facing_right |-> facing_right, position |-> Vec(F(100), F(300)),
                     current_health |-> wolf_max_health, is_alive |-> TRUE,
                     is_invulnerable |-> FALSE, invulnerability_timer |-> 0,
                     marked_for_removal |-> FALSE,
                     bounds |-> Rect(F(100 + dx - 32), F(300 - 24), F(64), F(48)),
                     started |-> FALSE, owed |-> 0 - 1]

NextFight ==
    /\ tick < FightFrames
    /\ \E delta_time \in {Seconds(1, 60), Seconds(1, 10)}, input_attack \in BOOLEAN :
            PlayingState_update(delta_time, input_attack)

SpecFight == InitFight /\ [][NextFight]_vars

\* C30: an attack that Player.attack started off cooldown with a living
\* wolf's bounds in the weapon's attack area has cost that wolf weapon.damage
\* by the time player.is_attacking is false again
C30_AttackLands ==
    (combat # [none |-> TRUE] /\ combat.started /\ combat.owed >= 0 /\ ~combat.player) =>
        combat.current_health <= Max(0, combat.owed - weapon_damage)

====
